---- MODULE Spec2Model ----
(***************************************************************************)
(* A model of cobracurl: the translation of curl-style command flags into  *)
(* an *http.Request (BuildRequest, request.go) and an *http.Client         *)
(* (BuildClient, client.go), with the flag registration of flags.go.       *)
(*                                                                         *)
(* Go strings are sequences of one-character strings, so that splitting,   *)
(* trimming, upper-casing and escaping are computed character by           *)
(* character as the code computes them.                                    *)
(***************************************************************************)
EXTENDS Integers, Sequences, FiniteSets, TLC

VARIABLES
    registered,   \* TRUE once RegisterFlags has run on the command's flag set
    flags,        \* the command's flag set: flag name -> [typ, val]
    args,         \* the positional arguments handed to BuildRequest
    parsed,       \* number of flags set from the command line so far
    mapOrder,     \* the iteration order Go picked for the form map in the last build
    reqDone,      \* TRUE once BuildRequest has returned
    req,          \* the *http.Request BuildRequest returned (NoRequest for nil)
    reqErr,       \* the error BuildRequest returned
    clientDone,   \* TRUE once BuildClient has returned
    client,       \* the *http.Client BuildClient returned (NoClient for nil)
    clientErr,    \* the error BuildClient returned
    doState,      \* client.Do: "idle", "sent", "redirected", "follow", "returned"
    via,          \* client.Do: the number of requests issued so far (len(reqs))
    resp,         \* client.Do: the last response received ("none" before the first)
    doErr,        \* client.Do: the error it returned
    calls         \* the builder calls of concurrent goroutines, each with its locals

vars == <<registered, flags, args, parsed, mapOrder, reqDone, req, reqErr,
          clientDone, client, clientErr, doState, via, resp, doErr, calls>>

----------------------------------------------------------------------------
(* Characters and strings                                                  *)

\* The printable ASCII characters, code 32 (space) to 126 (~), in code order
\* (code 96, the grave accent, is spelled out: no input contains it).
AsciiChars ==
    << " ", "!", "\"", "#", "$", "%", "&", "'", "(", ")", "*", "+", ",", "-", ".", "/",
       "0", "1", "2", "3", "4", "5", "6", "7", "8", "9", ":", ";", "<", "=", ">", "?",
       "@", "A", "B", "C", "D", "E", "F", "G", "H", "I", "J", "K", "L", "M", "N", "O",
       "P", "Q", "R", "S", "T", "U", "V", "W", "X", "Y", "Z", "[", "\\", "]", "^", "_",
       "grave", "a", "b", "c", "d", "e", "f", "g", "h", "i", "j", "k", "l", "m", "n", "o",
       "p", "q", "r", "s", "t", "u", "v", "w", "x", "y", "z", "{", "|", "}", "~" >>

Code(c) == 31 + (CHOOSE i \in 1..Len(AsciiChars) : AsciiChars[i] = c)

Chr(n) == AsciiChars[n - 31]

IsUpperCh(c) == Code(c) \in 65..90
IsLowerCh(c) == Code(c) \in 97..122
IsLetter(c) == IsUpperCh(c) \/ IsLowerCh(c)
IsDigit(c) == Code(c) \in 48..57
IsAlnum(c) == IsLetter(c) \/ IsDigit(c)

UpperCh(c) == IF IsLowerCh(c) THEN Chr(Code(c) - 32) ELSE c
LowerCh(c) == IF IsUpperCh(c) THEN Chr(Code(c) + 32) ELSE c

\* strings.ToUpper
ToUpper(s) == [i \in 1..Len(s) |-> UpperCh(s[i])]

\* s[from:] and s[:to] with Go's 0-based, end-exclusive indices
From(s, i) == SubSeq(s, i + 1, Len(s))
Upto(s, i) == SubSeq(s, 1, i)

\* strings.IndexByte: the 0-based index of the first c in s, -1 if none
IndexByte(s, c) ==
    IF \E i \in 1..Len(s) : s[i] = c
    THEN (CHOOSE i \in 1..Len(s) : s[i] = c /\ \A j \in 1..(i - 1) : s[j] # c) - 1
    ELSE -1

\* strings.Contains(s, c) for a one-character needle
Contains(s, c) == \E i \in 1..Len(s) : s[i] = c

HasPrefix(s, p) == Len(s) >= Len(p) /\ SubSeq(s, 1, Len(p)) = p

\* strings.TrimSpace (the only white space of the alphabet is the space)
RECURSIVE TrimLeft(_)
TrimLeft(s) == IF s # <<>> /\ s[1] = " " THEN TrimLeft(Tail(s)) ELSE s

RECURSIVE TrimRight(_)
TrimRight(s) ==
    IF s # <<>> /\ s[Len(s)] = " " THEN TrimRight(SubSeq(s, 1, Len(s) - 1)) ELSE s

TrimSpace(s) == TrimRight(TrimLeft(s))

\* strings.SplitN(s, sep, 2): one part if sep does not occur, else two
SplitN2(s, sep) ==
    IF IndexByte(s, sep) < 0 THEN <<s>>
    ELSE <<Upto(s, IndexByte(s, sep)), From(s, IndexByte(s, sep) + 1)>>

\* strings.Split(s, sep) for a one-character separator
RECURSIVE Split(_, _)
Split(s, sep) ==
    IF IndexByte(s, sep) < 0 THEN <<s>>
    ELSE <<Upto(s, IndexByte(s, sep))>> \o Split(From(s, IndexByte(s, sep) + 1), sep)

\* strings.Join
RECURSIVE Join(_, _)
Join(parts, sep) ==
    IF parts = <<>> THEN <<>>
    ELSE IF Len(parts) = 1 THEN parts[1]
    ELSE parts[1] \o sep \o Join(Tail(parts), sep)

HexDigits == <<"0", "1", "2", "3", "4", "5", "6", "7", "8", "9", "A", "B", "C", "D", "E", "F">>

\* "%XX" for a character, upper-case hexadecimal
PercentHex(c) == <<"%", HexDigits[(Code(c) \div 16) + 1], HexDigits[(Code(c) % 16) + 1]>>

\* url.QueryEscape: unreserved characters stay, space becomes '+', the rest %XX
QueryEscapeCh(c) ==
    IF IsAlnum(c) \/ c \in {"-", "_", ".", "~"} THEN <<c>>
    ELSE IF c = " " THEN <<"+">>
    ELSE PercentHex(c)

RECURSIVE QueryEscape(_)
QueryEscape(s) == IF s = <<>> THEN <<>> ELSE QueryEscapeCh(s[1]) \o QueryEscape(Tail(s))

\* A mutation of encodeData: the whole value is escaped, '=' included.
encodeDataAll(s) == QueryEscape(s)

\* encodeData (request.go)
encodeData(s) ==
    IF IndexByte(s, "=") >= 0
    THEN Upto(s, IndexByte(s, "=") + 1) \o QueryEscape(From(s, IndexByte(s, "=") + 1))
    ELSE QueryEscape(s)

----------------------------------------------------------------------------
(* The parts of net/url and net/http that http.NewRequest, Header.Set,     *)
(* Header.Add, SetBasicAuth and AddCookie run on behalf of BuildRequest.   *)

NoError == "nil"
ErrMissingRequiredFields == "missing required fields: method and url"
ErrInvalidMethod == "net/http: invalid method"
ErrMissingScheme == "missing protocol scheme"
ErrColonInFirstSegment == "first path segment in URL cannot contain colon"
ErrInvalidHost == "invalid character in host name"
ErrInvalidPort == "invalid port after host"
ErrInvalidEscape == "invalid URL escape"

IsHex(c) == IsDigit(c) \/ c \in {"a", "b", "c", "d", "e", "f", "A", "B", "C", "D", "E", "F"}

\* every '%' of s starts a %XX escape (url.unescape's first pass)
ValidEscapes(s) ==
    \A i \in 1..Len(s) :
        s[i] = "%" => (i + 2 <= Len(s) /\ IsHex(s[i + 1]) /\ IsHex(s[i + 2]))

LastIndexByte(s, c) ==
    IF \E i \in 1..Len(s) : s[i] = c
    THEN (CHOOSE i \in 1..Len(s) : s[i] = c /\ \A j \in (i + 1)..Len(s) : s[j] # c) - 1
    ELSE -1

CountByte(s, c) == Cardinality({i \in 1..Len(s) : s[i] = c})

\* url.getScheme: [err, scheme, rest]
getScheme(rawURL) ==
    LET cont(i) == IsLetter(rawURL[i]) \/ (i > 1 /\ (IsDigit(rawURL[i]) \/ rawURL[i] \in {"+", "-", "."}))
        stops == {i \in 1..Len(rawURL) : ~cont(i)}
        stop == CHOOSE i \in stops : \A j \in stops : i <= j
    IN IF stops = {} \/ rawURL[stop] # ":"
       THEN [err |-> NoError, scheme |-> <<>>, rest |-> rawURL]
       ELSE IF stop = 1
       THEN [err |-> ErrMissingScheme, scheme |-> <<>>, rest |-> <<>>]
       ELSE [err |-> NoError, scheme |-> Upto(rawURL, stop - 1), rest |-> From(rawURL, stop)]

\* the bytes url.shouldEscape lets through unescaped in a host name
HostByteOK(c) ==
    IsAlnum(c) \/ c \in {"-", "_", ".", "~", "!", "$", "&", "'", "(", ")", "*", "+", ",",
                         ";", "=", ":", "[", "]", "<", ">", "\"", "%"}

\* url.validOptionalPort
validOptionalPort(port) ==
    port = <<>> \/ (port[1] = ":" /\ \A i \in 2..Len(port) : IsDigit(port[i]))

\* url.parseAuthority / parseHost for an authority without userinfo: the error
parseHostErr(authority) ==
    LET host == IF LastIndexByte(authority, "@") < 0 THEN authority
                ELSE From(authority, LastIndexByte(authority, "@") + 1)
        colon == LastIndexByte(host, ":")
    IN IF ~HasPrefix(host, <<"[">>) /\ colon # -1 /\ ~validOptionalPort(From(host, colon))
       THEN ErrInvalidPort
       ELSE IF ~ValidEscapes(host) THEN ErrInvalidEscape
       ELSE IF \E i \in 1..Len(host) : ~HostByteOK(host[i]) THEN ErrInvalidHost
       ELSE NoError

NoURL == [nil |-> TRUE]

URLError(e) == [err |-> e, url |-> NoURL]

\* the URL url.Parse returns, kept by component, each in its escaped form
MakeURL(scheme, opaque, host, path, force, rawQuery, frag) ==
    [err |-> NoError,
     url |-> [nil |-> FALSE,
              scheme |-> [i \in 1..Len(scheme) |-> LowerCh(scheme[i])],
              opaque |-> opaque,
              host |-> host,
              path |-> path,
              forceQuery |-> force,
              rawQuery |-> rawQuery,
              fragment |-> frag]]

\* url.parse, the end: the host is checked (parseAuthority), then the escapes of
\* the path (setPath) and of the fragment (setFragment)
ParseCheck(scheme, hasAuth, host, path, force, rawQuery, frag) ==
    IF hasAuth /\ parseHostErr(host) # NoError THEN URLError(parseHostErr(host))
    ELSE IF ~ValidEscapes(path) \/ ~ValidEscapes(frag) THEN URLError(ErrInvalidEscape)
    ELSE MakeURL(scheme, <<>>, host, path, force, rawQuery, frag)

\* url.parse: what follows "//" is the authority up to the next '/', then the path
ParseAuthority(scheme, afterSl, force, rawQuery, frag) ==
    IF IndexByte(afterSl, "/") < 0
    THEN ParseCheck(scheme, TRUE, afterSl, <<>>, force, rawQuery, frag)
    ELSE ParseCheck(scheme, TRUE, Upto(afterSl, IndexByte(afterSl, "/")),
                    From(afterSl, IndexByte(afterSl, "/")), force, rawQuery, frag)

\* the first path segment of a rootless path
FirstSegment(rest) == IF IndexByte(rest, "/") < 0 THEN rest ELSE Upto(rest, IndexByte(rest, "/"))

\* url.parse after the query is cut off: opaque, rootless, with authority, or a path
ParsePath(scheme, rest, force, rawQuery, frag) ==
    IF ~HasPrefix(rest, <<"/">>) /\ scheme # <<>>
    THEN IF ~ValidEscapes(frag) THEN URLError(ErrInvalidEscape)
         ELSE MakeURL(scheme, rest, <<>>, <<>>, force, rawQuery, frag)
    ELSE IF ~HasPrefix(rest, <<"/">>) /\ Contains(FirstSegment(rest), ":")
    THEN URLError(ErrColonInFirstSegment)
    ELSE IF HasPrefix(rest, <<"/", "/">>)
            /\ (scheme # <<>> \/ ~HasPrefix(rest, <<"/", "/", "/">>))
    THEN ParseAuthority(scheme, From(rest, 2), force, rawQuery, frag)
    ELSE ParseCheck(scheme, FALSE, <<>>, rest, force, rawQuery, frag)

\* url.parse after the scheme: a lone trailing '?' forces an empty query, otherwise
\* the query is what follows the first '?'
ParseQuery(gs, frag) ==
    IF gs.err # NoError THEN URLError(gs.err)
    ELSE IF gs.rest # <<>> /\ gs.rest[Len(gs.rest)] = "?" /\ CountByte(gs.rest, "?") = 1
    THEN ParsePath(gs.scheme, Upto(gs.rest, Len(gs.rest) - 1), TRUE, <<>>, frag)
    ELSE IF IndexByte(gs.rest, "?") < 0
    THEN ParsePath(gs.scheme, gs.rest, FALSE, <<>>, frag)
    ELSE ParsePath(gs.scheme, Upto(gs.rest, IndexByte(gs.rest, "?")), FALSE,
                   From(gs.rest, IndexByte(gs.rest, "?") + 1), frag)

\* url.Parse: [err, url]; the fragment is what follows the first '#'
ParseURL(rawURL) ==
    IF IndexByte(rawURL, "#") < 0 THEN ParseQuery(getScheme(rawURL), <<>>)
    ELSE ParseQuery(getScheme(Upto(rawURL, IndexByte(rawURL, "#"))),
                    From(rawURL, IndexByte(rawURL, "#") + 1))

\* the bytes of an HTTP token (httpguts.IsTokenRune)
IsTokenCh(c) ==
    IsAlnum(c) \/ c \in {"!", "#", "$", "%", "&", "'", "*", "+", "-", ".", "^", "_", "grave", "|", "~"}

\* http.validMethod
validMethod(method) == Len(method) > 0 /\ \A i \in 1..Len(method) : IsTokenCh(method[i])

NoRequest == [nil |-> TRUE]

\* http.NewRequest, once the URL is parsed
NewRequestWithURL(method, pu, body) ==
    IF pu.err # NoError THEN [err |-> pu.err, req |-> NoRequest]
    ELSE [err |-> NoError,
          req |-> [nil |-> FALSE, method |-> method, url |-> pu.url,
                   header |-> <<>>, body |-> body]]

\* http.NewRequest(method, url, body): [err, req]
NewRequest(method, rawURL, body) ==
    IF ~validMethod(method) THEN [err |-> ErrInvalidMethod, req |-> NoRequest]
    ELSE NewRequestWithURL(method, ParseURL(rawURL), body)

\* textproto.CanonicalMIMEHeaderKey
CanonicalKey(k) ==
    IF \E i \in 1..Len(k) : ~IsTokenCh(k[i]) THEN k
    ELSE [i \in 1..Len(k) |->
            IF i = 1 \/ k[i - 1] = "-" THEN UpperCh(k[i]) ELSE LowerCh(k[i])]

\* the values of header key k, in the order they were added (Header.Values)
RECURSIVE HeaderValues(_, _)
HeaderValues(h, k) ==
    IF h = <<>> THEN <<>>
    ELSE (IF h[1][1] = CanonicalKey(k) THEN <<h[1][2]>> ELSE <<>>) \o HeaderValues(Tail(h), k)

\* Header.Get: the first value of the key, "" if none
HeaderGet(h, k) == IF HeaderValues(h, k) = <<>> THEN <<>> ELSE HeaderValues(h, k)[1]

RECURSIVE HeaderDel(_, _)
HeaderDel(h, k) ==
    IF h = <<>> THEN <<>>
    ELSE (IF h[1][1] = CanonicalKey(k) THEN <<>> ELSE <<h[1]>>) \o HeaderDel(Tail(h), k)

\* Header.Add appends a value to the key's list
HeaderAdd(h, k, v) == Append(h, <<CanonicalKey(k), v>>)

\* Header.Set replaces the key's list by the one value
HeaderSet(h, k, v) == Append(HeaderDel(h, k), <<CanonicalKey(k), v>>)

Base64Chars ==
    << "A", "B", "C", "D", "E", "F", "G", "H", "I", "J", "K", "L", "M", "N", "O", "P",
       "Q", "R", "S", "T", "U", "V", "W", "X", "Y", "Z", "a", "b", "c", "d", "e", "f",
       "g", "h", "i", "j", "k", "l", "m", "n", "o", "p", "q", "r", "s", "t", "u", "v",
       "w", "x", "y", "z", "0", "1", "2", "3", "4", "5", "6", "7", "8", "9", "+", "/" >>

\* base64.StdEncoding.EncodeToString
RECURSIVE Base64(_)
Base64(s) ==
    IF s = <<>> THEN <<>>
    ELSE IF Len(s) = 1 THEN
        LET n == Code(s[1]) * 65536
        IN <<Base64Chars[(n \div 262144) + 1], Base64Chars[((n \div 4096) % 64) + 1], "=", "=">>
    ELSE IF Len(s) = 2 THEN
        LET n == Code(s[1]) * 65536 + Code(s[2]) * 256
        IN <<Base64Chars[(n \div 262144) + 1], Base64Chars[((n \div 4096) % 64) + 1],
             Base64Chars[((n \div 64) % 64) + 1], "=">>
    ELSE
        LET n == Code(s[1]) * 65536 + Code(s[2]) * 256 + Code(s[3])
        IN <<Base64Chars[(n \div 262144) + 1], Base64Chars[((n \div 4096) % 64) + 1],
             Base64Chars[((n \div 64) % 64) + 1], Base64Chars[(n % 64) + 1]>>
           \o Base64(From(s, 3))

\* Request.SetBasicAuth
SetBasicAuth(r, username, password) ==
    [r EXCEPT !.header =
        HeaderSet(@, <<"A", "u", "t", "h", "o", "r", "i", "z", "a", "t", "i", "o", "n">>,
                  <<"B", "a", "s", "i", "c", " ">> \o Base64(username \o <<":">> \o password))]

\* http.sanitizeCookieValue: invalid bytes are dropped, a value holding a space
\* or a comma is quoted
sanitizeCookieValue(v) ==
    LET kept == SelectSeq(v, LAMBDA c : c \notin {"\"", ";", "\\"})
    IN IF Contains(kept, " ") \/ Contains(kept, ",") THEN <<"\"">> \o kept \o <<"\"">> ELSE kept

CookieKey == <<"C", "o", "o", "k", "i", "e">>

\* Request.AddCookie: the pair joins the Cookie header line, "; "-separated
AddCookie(r, name, value) ==
    LET s == name \o <<"=">> \o sanitizeCookieValue(value)
        c == HeaderGet(r.header, CookieKey)
    IN [r EXCEPT !.header =
            IF c # <<>> THEN HeaderSet(@, CookieKey, c \o <<";", " ">> \o s)
            ELSE HeaderSet(@, CookieKey, s)]

----------------------------------------------------------------------------
(* The flag set (pflag.FlagSet) and its typed getters                      *)

\* a flag name that is not registered on the flag set
Unregistered == [typ |-> "none", val |-> FALSE]

StringFlag(v) == [typ |-> "string", val |-> v]
BoolFlag(v) == [typ |-> "bool", val |-> v]
IntFlag(v) == [typ |-> "int", val |-> v]
Float64Flag(v) == [typ |-> "float64", val |-> v]
StringArrayFlag(v) == [typ |-> "stringArray", val |-> v]
StringToStringFlag(v) == [typ |-> "stringToString", val |-> v]

\* the names RegisterFlags registers
RegisteredNames ==
    {"append", "cookie", "basic", "compressed", "data", "digest", "fail", "form", "head",
     "header", "get", "include", "insecure", "json", "method", "output", "location",
     "proxy", "remote-name", "silent", "referer", "upload-file", "url", "user-agent",
     "user", "verbose"}

\* the names BuildRequest reads
RequestFlagNames ==
    {"request", "url", "get", "head", "data", "data-binary", "data-raw", "data-urlencode",
     "form", "json", "compressed", "range", "user-agent", "user", "oauth2-bearer",
     "referer", "header", "cookie"}

\* the names BuildClient reads
ClientFlagNames == {"insecure", "connect-timeout", "proxy", "max-time", "location", "max-redirs"}

FlagNames == RegisteredNames \cup RequestFlagNames \cup ClientFlagNames

\* the type of the getter each builder reads a flag with
ReadType(name) ==
    IF name \in {"get", "head", "compressed", "insecure", "location"} THEN "bool"
    ELSE IF name \in {"header", "cookie"} THEN "stringArray"
    ELSE IF name = "form" THEN "stringToString"
    ELSE IF name \in {"connect-timeout", "max-time"} THEN "float64"
    ELSE IF name = "max-redirs" THEN "int"
    ELSE "string"

EmptyFlagSet == [n \in FlagNames |-> Unregistered]

StrPOST == <<"P", "O", "S", "T">>
StrGET == <<"G", "E", "T">>
StrHEAD == <<"H", "E", "A", "D">>

\* RegisterFlags (flags.go): the flag set after registration, every flag at its default
RegisterFlags ==
    [n \in FlagNames |->
        IF n \in {"append", "basic", "compressed", "digest", "fail", "include", "insecure",
                  "location", "silent", "verbose"} THEN BoolFlag(FALSE)
        ELSE IF n = "method" THEN StringFlag(StrGET)
        ELSE IF n \in RegisteredNames THEN StringFlag(<<>>)
        ELSE Unregistered]

\* FlagSet.GetString and its siblings: the value when the flag is registered with
\* the getter's type, else the zero value (the builders drop the error)
GetString(f, name) == IF f[name].typ = "string" THEN f[name].val ELSE <<>>
GetBool(f, name) == IF f[name].typ = "bool" THEN f[name].val ELSE FALSE
GetInt(f, name) == IF f[name].typ = "int" THEN f[name].val ELSE 0
GetFloat64(f, name) == IF f[name].typ = "float64" THEN f[name].val ELSE 0
GetStringArray(f, name) == IF f[name].typ = "stringArray" THEN f[name].val ELSE <<>>
GetStringToString(f, name) == IF f[name].typ = "stringToString" THEN f[name].val ELSE <<>>

----------------------------------------------------------------------------
(* BuildRequest (request.go)                                               *)

\* A mutation of ResolveMethod: --get does not select a method.
ResolveMethodIgnoringGet(f) ==
    IF GetString(f, "request") # <<>> THEN GetString(f, "request")
    ELSE IF GetBool(f, "head") THEN StrHEAD
    ELSE <<>>

\* A mutation of ResolveMethod: --head is consulted before --get.
ResolveMethodHeadFirst(f) ==
    IF GetString(f, "request") # <<>> THEN GetString(f, "request")
    ELSE IF GetBool(f, "head") THEN StrHEAD
    ELSE IF GetBool(f, "get") THEN StrGET
    ELSE <<>>

\* request.go 14, 20-28: the method before upper-casing, <<>> when unresolved
ResolveMethod(f) ==
    IF GetString(f, "request") # <<>> THEN GetString(f, "request")
    ELSE IF GetBool(f, "get") THEN StrGET
    ELSE IF GetBool(f, "head") THEN StrHEAD
    ELSE <<>>

\* A mutation of ResolveURL: a positional argument wins over the url option.
ResolveURLArgsFirst(f, a) ==
    IF Len(a) > 0 THEN a[1] ELSE GetString(f, "url")

\* request.go 15-18: the raw URL, <<>> when unresolved
ResolveURL(f, a) ==
    IF GetString(f, "url") = <<>> /\ Len(a) > 0 THEN a[1] ELSE GetString(f, "url")

\* A mutation of MissingRequiredFields: only a request with neither is refused.
MissingBoth(method, rawURL) == method = <<>> /\ rawURL = <<>>

\* request.go 30: the guard of the ErrMissingRequiredFields return
MissingRequiredFields(method, rawURL) == method = <<>> \/ rawURL = <<>>

HdrFormContentType ==
    <<"C", "o", "n", "t", "e", "n", "t", "-", "T", "y", "p", "e", ":", " ",
      "a", "p", "p", "l", "i", "c", "a", "t", "i", "o", "n", "/",
      "x", "-", "w", "w", "w", "-", "f", "o", "r", "m", "-",
      "u", "r", "l", "e", "n", "c", "o", "d", "e", "d">>
HdrJSONContentType ==
    <<"C", "o", "n", "t", "e", "n", "t", "-", "T", "y", "p", "e", ":", " ",
      "a", "p", "p", "l", "i", "c", "a", "t", "i", "o", "n", "/", "j", "s", "o", "n">>
HdrJSONAccept ==
    <<"A", "c", "c", "e", "p", "t", ":", " ",
      "a", "p", "p", "l", "i", "c", "a", "t", "i", "o", "n", "/", "j", "s", "o", "n">>

\* request.go 53-57: the form map (a sequence of <<key, value>> pairs with distinct
\* keys) joined as key=value pairs in the order ord, the order the map iteration took
FormBody(form, ord) ==
    Join([i \in 1..Len(form) |-> form[ord[i]][1] \o <<"=">> \o form[ord[i]][2]], <<"&">>)

\* the iteration orders Go may take over a map of n entries
MapOrders(n) == {o \in [1..n -> 1..n] : \A i, j \in 1..n : o[i] = o[j] => i = j}

\* A mutation of ResolveBody: --json is consulted first.
ResolveBodyJSONFirst(f, ord) ==
    IF GetString(f, "json") # <<>>
    THEN [body |-> GetString(f, "json"), extraHeaders |-> <<HdrJSONContentType, HdrJSONAccept>>]
    ELSE IF GetString(f, "data") # <<>> THEN [body |-> GetString(f, "data"), extraHeaders |-> <<>>]
    ELSE IF GetString(f, "data-binary") # <<>>
    THEN [body |-> GetString(f, "data-binary"), extraHeaders |-> <<>>]
    ELSE IF GetString(f, "data-raw") # <<>>
    THEN [body |-> GetString(f, "data-raw"), extraHeaders |-> <<>>]
    ELSE IF GetString(f, "data-urlencode") # <<>>
    THEN [body |-> encodeData(GetString(f, "data-urlencode")), extraHeaders |-> <<>>]
    ELSE IF Len(GetStringToString(f, "form")) > 0
    THEN [body |-> FormBody(GetStringToString(f, "form"), ord),
          extraHeaders |-> <<HdrFormContentType>>]
    ELSE [body |-> <<>>, extraHeaders |-> <<>>]

\* request.go 34-64: the body and the synthetic headers of the first source that is set
ResolveBody(f, ord) ==
    IF GetString(f, "data") # <<>> THEN [body |-> GetString(f, "data"), extraHeaders |-> <<>>]
    ELSE IF GetString(f, "data-binary") # <<>>
    THEN [body |-> GetString(f, "data-binary"), extraHeaders |-> <<>>]
    ELSE IF GetString(f, "data-raw") # <<>>
    THEN [body |-> GetString(f, "data-raw"), extraHeaders |-> <<>>]
    ELSE IF GetString(f, "data-urlencode") # <<>>
    THEN [body |-> encodeData(GetString(f, "data-urlencode")), extraHeaders |-> <<>>]
    ELSE IF Len(GetStringToString(f, "form")) > 0
    THEN [body |-> FormBody(GetStringToString(f, "form"), ord),
          extraHeaders |-> <<HdrFormContentType>>]
    ELSE IF GetString(f, "json") # <<>>
    THEN [body |-> GetString(f, "json"), extraHeaders |-> <<HdrJSONContentType, HdrJSONAccept>>]
    ELSE [body |-> <<>>, extraHeaders |-> <<>>]

\* A mutation of FoldIntoURL: the body moves into the URL, the synthetic headers stay.
FoldKeepingHeaders(forceGet, rawURL, br) ==
    IF forceGet /\ br.body # <<>>
    THEN [rawURL |-> rawURL \o (IF Contains(rawURL, "?") THEN <<"&">> ELSE <<"?">>) \o br.body,
          body |-> <<>>, extraHeaders |-> br.extraHeaders]
    ELSE [rawURL |-> rawURL, body |-> br.body, extraHeaders |-> br.extraHeaders]

\* request.go 66-74: with --get, a non-empty body moves into the URL
FoldIntoURL(forceGet, rawURL, br) ==
    IF forceGet /\ br.body # <<>>
    THEN [rawURL |-> rawURL \o (IF Contains(rawURL, "?") THEN <<"&">> ELSE <<"?">>) \o br.body,
          body |-> <<>>, extraHeaders |-> <<>>]
    ELSE [rawURL |-> rawURL, body |-> br.body, extraHeaders |-> br.extraHeaders]

KeyAcceptEncoding == <<"A", "c", "c", "e", "p", "t", "-", "E", "n", "c", "o", "d", "i", "n", "g">>
KeyRange == <<"R", "a", "n", "g", "e">>
KeyUserAgent == <<"U", "s", "e", "r", "-", "A", "g", "e", "n", "t">>
KeyAuthorization == <<"A", "u", "t", "h", "o", "r", "i", "z", "a", "t", "i", "o", "n">>
KeyReferer == <<"R", "e", "f", "e", "r", "e", "r">>

\* request.go 88-90
ApplyCompressed(r, f) ==
    IF GetBool(f, "compressed")
    THEN [r EXCEPT !.header = HeaderSet(@, KeyAcceptEncoding, <<"g", "z", "i", "p", ",", " ", "d", "e", "f", "l", "a", "t", "e", ",", " ", "b", "r">>)]
    ELSE r

\* request.go 92-94
ApplyRange(r, f) ==
    IF GetString(f, "range") # <<>>
    THEN [r EXCEPT !.header = HeaderSet(@, KeyRange, <<"b", "y", "t", "e", "s", "=">> \o GetString(f, "range"))]
    ELSE r

\* request.go 96-98
ApplyUserAgent(r, f) ==
    IF GetString(f, "user-agent") # <<>>
    THEN [r EXCEPT !.header = HeaderSet(@, KeyUserAgent, GetString(f, "user-agent"))]
    ELSE r

\* A mutation of ApplyUser: a value without a colon is a user with an empty password.
ApplyUserNoColonAsUser(r, f) ==
    IF GetString(f, "user") = <<>> THEN r
    ELSE IF Len(SplitN2(GetString(f, "user"), ":")) = 2
    THEN SetBasicAuth(r, TrimSpace(SplitN2(GetString(f, "user"), ":")[1]),
                      TrimSpace(SplitN2(GetString(f, "user"), ":")[2]))
    ELSE SetBasicAuth(r, TrimSpace(GetString(f, "user")), <<>>)

\* request.go 100-105
ApplyUser(r, f) ==
    IF GetString(f, "user") # <<>> /\ Len(SplitN2(GetString(f, "user"), ":")) = 2
    THEN SetBasicAuth(r, TrimSpace(SplitN2(GetString(f, "user"), ":")[1]),
                      TrimSpace(SplitN2(GetString(f, "user"), ":")[2]))
    ELSE r

\* A mutation of ApplyBearer: the bearer value is added to the header's values.
ApplyBearerAdding(r, f) ==
    IF GetString(f, "oauth2-bearer") # <<>>
    THEN [r EXCEPT !.header =
            HeaderAdd(@, KeyAuthorization, <<"B", "e", "a", "r", "e", "r", " ">> \o GetString(f, "oauth2-bearer"))]
    ELSE r

\* request.go 107-109
ApplyBearer(r, f) ==
    IF GetString(f, "oauth2-bearer") # <<>>
    THEN [r EXCEPT !.header =
            HeaderSet(@, KeyAuthorization, <<"B", "e", "a", "r", "e", "r", " ">> \o GetString(f, "oauth2-bearer"))]
    ELSE r

\* request.go 111-113
ApplyReferer(r, f) ==
    IF GetString(f, "referer") # <<>>
    THEN [r EXCEPT !.header = HeaderSet(@, KeyReferer, GetString(f, "referer"))]
    ELSE r

\* request.go 88-113: the headers of the dedicated options, each set in code order
ApplyOptions(r, f) ==
    ApplyReferer(ApplyBearer(ApplyUser(ApplyUserAgent(ApplyRange(ApplyCompressed(r, f), f), f), f), f), f)

\* A mutation of ApplyHeaders: each entry replaces the values of its name.
RECURSIVE ApplyHeadersSetting(_, _)
ApplyHeadersSetting(r, hs) ==
    IF hs = <<>> THEN r
    ELSE IF hs[1] # <<>> /\ Len(SplitN2(hs[1], ":")) = 2
    THEN ApplyHeadersSetting([r EXCEPT !.header =
                                 HeaderSet(@, TrimSpace(SplitN2(hs[1], ":")[1]),
                                           TrimSpace(SplitN2(hs[1], ":")[2]))],
                             Tail(hs))
    ELSE ApplyHeadersSetting(r, Tail(hs))

\* request.go 116-124: each "Name: Value" entry is added; empty entries and entries
\* without a colon are skipped
RECURSIVE ApplyHeaders(_, _)
ApplyHeaders(r, hs) ==
    IF hs = <<>> THEN r
    ELSE IF hs[1] # <<>> /\ Len(SplitN2(hs[1], ":")) = 2
    THEN ApplyHeaders([r EXCEPT !.header =
                          HeaderAdd(@, TrimSpace(SplitN2(hs[1], ":")[1]),
                                    TrimSpace(SplitN2(hs[1], ":")[2]))],
                      Tail(hs))
    ELSE ApplyHeaders(r, Tail(hs))

\* A mutation of ApplyCookiePair: a piece without '=' is a cookie with an empty value.
ApplyCookiePairKeepingMalformed(r, pair) ==
    IF pair = <<>> THEN r
    ELSE IF Len(SplitN2(pair, "=")) = 2
    THEN AddCookie(r, TrimSpace(SplitN2(pair, "=")[1]), TrimSpace(SplitN2(pair, "=")[2]))
    ELSE AddCookie(r, pair, <<>>)

\* request.go 129-139: one trimmed piece of a --cookie string
ApplyCookiePair(r, pair) ==
    IF pair # <<>> /\ Len(SplitN2(pair, "=")) = 2
    THEN AddCookie(r, TrimSpace(SplitN2(pair, "=")[1]), TrimSpace(SplitN2(pair, "=")[2]))
    ELSE r

\* A mutation of ApplyCookiePairs: the first malformed piece ends the string.
RECURSIVE ApplyCookiePairsStopping(_, _)
ApplyCookiePairsStopping(r, pairs) ==
    IF pairs = <<>> THEN r
    ELSE IF TrimSpace(pairs[1]) # <<>> /\ Len(SplitN2(TrimSpace(pairs[1]), "=")) # 2 THEN r
    ELSE ApplyCookiePairsStopping(ApplyCookiePair(r, TrimSpace(pairs[1])), Tail(pairs))

\* request.go 128-140: the name=value pairs of one --cookie string
RECURSIVE ApplyCookiePairs(_, _)
ApplyCookiePairs(r, pairs) ==
    IF pairs = <<>> THEN r
    ELSE ApplyCookiePairs(ApplyCookiePair(r, TrimSpace(pairs[1])), Tail(pairs))

\* request.go 126-141
RECURSIVE ApplyCookies(_, _)
ApplyCookies(r, cs) ==
    IF cs = <<>> THEN r
    ELSE ApplyCookies(ApplyCookiePairs(r, Split(cs[1], ";")), Tail(cs))

\* A mutation of FinishRequest: the header list is applied before the option headers.
FinishRequestHeadersFirst(f, extraHeaders, nr) ==
    IF nr.err # NoError THEN [req |-> NoRequest, err |-> nr.err]
    ELSE [req |-> ApplyCookies(
                     ApplyOptions(ApplyHeaders(nr.req, extraHeaders \o GetStringArray(f, "header")),
                                  f),
                     GetStringArray(f, "cookie")),
          err |-> NoError]

\* request.go 84-143: the construction error is returned, or the request with the
\* option headers, the synthetic and explicit headers, and the cookies
FinishRequest(f, extraHeaders, nr) ==
    IF nr.err # NoError THEN [req |-> NoRequest, err |-> nr.err]
    ELSE [req |-> ApplyCookies(
                     ApplyHeaders(ApplyOptions(nr.req, f),
                                  extraHeaders \o GetStringArray(f, "header")),
                     GetStringArray(f, "cookie")),
          err |-> NoError]

\* request.go 76-83: the request is constructed from the upper-cased method, the
\* URL and the body left after folding
BuildFolded(f, method, fold) ==
    FinishRequest(f, fold.extraHeaders, NewRequest(ToUpper(method), fold.rawURL, fold.body))

\* A mutation of BuildResolved: the URL is parsed before the missing-fields check.
BuildResolvedParsingFirst(f, method, rawURL, ord) ==
    IF rawURL # <<>> /\ ParseURL(rawURL).err # NoError
    THEN [req |-> NoRequest, err |-> ParseURL(rawURL).err]
    ELSE IF MissingRequiredFields(method, rawURL)
    THEN [req |-> NoRequest, err |-> ErrMissingRequiredFields]
    ELSE BuildFolded(f, method, FoldIntoURL(GetBool(f, "get"), rawURL, ResolveBody(f, ord)))

\* request.go 30-74
BuildResolved(f, method, rawURL, ord) ==
    IF MissingRequiredFields(method, rawURL)
    THEN [req |-> NoRequest, err |-> ErrMissingRequiredFields]
    ELSE BuildFolded(f, method, FoldIntoURL(GetBool(f, "get"), rawURL, ResolveBody(f, ord)))

\* BuildRequest (request.go 13-144): [req, err]; ord is the order the iteration
\* over the form map takes in this call
BuildRequest(f, a, ord) == BuildResolved(f, ResolveMethod(f), ResolveURL(f, a), ord)

----------------------------------------------------------------------------
(* BuildClient (client.go)                                                 *)

ErrUseLastResponse == "net/http: use last response"
ErrTooManyRedirects == "stopped after 10 redirects"

\* A float64 flag value is kept as the number of thousandths its decimal text
\* denotes (1.5 is 1500): the float64 the flag holds is the double nearest to
\* x / 1000. A time.Duration is kept as [ms, ns], ms * NanosPerMilli + ns
\* nanoseconds (nanosecond counts exceed the integers of the checker).
NanosPerMilli == 1000000

RECURSIVE Pow2(_)
Pow2(n) == IF n = 0 THEN 1 ELSE 2 * Pow2(n - 1)

RECURSIVE Pow2Mod1000(_)
Pow2Mod1000(n) == IF n = 0 THEN 1 ELSE (2 * Pow2Mod1000(n - 1)) % 1000

RECURSIVE ExponentUp(_, _)
ExponentUp(x, e) == IF x >= 1000 * Pow2(e + 1) THEN ExponentUp(x, e + 1) ELSE e

RECURSIVE ExponentDown(_, _)
ExponentDown(x, n) == IF x * Pow2(n) >= 1000 THEN n ELSE ExponentDown(x, n + 1)

\* the binary exponent of the float64 nearest to x / 1000: floor(log2(x / 1000))
Exponent(x) == IF x >= 1000 THEN ExponentUp(x, 0) ELSE 0 - ExponentDown(x, 0)

\* the error of the float64 nearest to x / 1000, in thousandths of its last
\* mantissa bit (weight 2^(e - 52)): the mantissa is x * 2^(52 - e) / 1000 rounded
\* to the nearest integer, r is the remainder of that division (never 500 here,
\* 52 - e being at least 3)
MantissaError(r) == IF r < 500 THEN 0 - r ELSE 1000 - r

\* the difference of the binary exponents of x * 10^6 and x / 1000, 29 or 30
ProductExponentGap(x, e) ==
    IF (IF e >= 0 THEN x * 15625 >= Pow2(24 + e) ELSE x * 15625 * Pow2(0 - e) >= Pow2(24))
    THEN 30 ELSE 29

\* the float64 product seconds * 1e9 rounds to a double below the integer
\* x * 10^6: the exact product misses it by err * 10^6 / 2^gap of the product's
\* last bit, and rounds away from it when that exceeds one half
RoundsBelow(err, gap) == err < 0 /\ (0 - err) * 1000000 > Pow2(gap - 1)

\* time.Duration(seconds * float64(time.Second)), client.go 24 and 39, for a
\* positive seconds value of x thousandths: the float64 product truncated to int64
SecondsToDuration(x) ==
    IF RoundsBelow(MantissaError((x * Pow2Mod1000(52 - Exponent(x))) % 1000),
                   ProductExponentGap(x, Exponent(x)))
    THEN [ms |-> x - 1, ns |-> NanosPerMilli - 1]
    ELSE [ms |-> x, ns |-> 0]

\* the zero time.Duration: no timeout
ZeroDuration == [ms |-> 0, ns |-> 0]

\* the redirect limit of net/http's default policy, used when CheckRedirect is nil
DefaultMaxRedirects == 10

\* A mutation of RedirectPolicy: --max-redirs is honoured without --location.
RedirectPolicyIgnoringLocation(f) ==
    IF GetInt(f, "max-redirs") > 0
    THEN [checkRedirect |-> "limit", maxRedirs |-> GetInt(f, "max-redirs")]
    ELSE IF ~GetBool(f, "location") THEN [checkRedirect |-> "useLast", maxRedirs |-> 0]
    ELSE [checkRedirect |-> "nil", maxRedirs |-> 0]

\* A mutation of RedirectPolicy: a max-redirs of zero is a limit of zero.
RedirectPolicyZeroStops(f) ==
    IF ~GetBool(f, "location") THEN [checkRedirect |-> "useLast", maxRedirs |-> 0]
    ELSE IF GetInt(f, "max-redirs") >= 0
    THEN [checkRedirect |-> "limit", maxRedirs |-> GetInt(f, "max-redirs")]
    ELSE [checkRedirect |-> "nil", maxRedirs |-> 0]

\* client.go 42-57: the CheckRedirect hook installed on the client: "useLast" is the
\* closure of line 44, "limit" the closure of line 50 with the maxRedirs it captured,
\* "nil" no hook
RedirectPolicy(f) ==
    IF ~GetBool(f, "location") THEN [checkRedirect |-> "useLast", maxRedirs |-> 0]
    ELSE IF GetInt(f, "max-redirs") > 0
    THEN [checkRedirect |-> "limit", maxRedirs |-> GetInt(f, "max-redirs")]
    ELSE [checkRedirect |-> "nil", maxRedirs |-> 0]

NoClient == [nil |-> TRUE]

\* A mutation of BuildClientWith: a proxy that fails to parse is left out.
BuildClientIgnoringProxyError(f, proxyStr, pu, policy) ==
    IF FALSE
    THEN [client |-> NoClient, err |-> pu.err]
    ELSE [client |->
             [nil |-> FALSE,
              insecureSkipVerify |-> GetBool(f, "insecure"),
              dialTimeout |-> IF GetFloat64(f, "connect-timeout") > 0
                              THEN SecondsToDuration(GetFloat64(f, "connect-timeout"))
                              ELSE ZeroDuration,
              proxy |-> IF proxyStr # <<>> /\ pu.err = NoError THEN pu.url ELSE NoURL,
              timeout |-> IF GetFloat64(f, "max-time") > 0
                          THEN SecondsToDuration(GetFloat64(f, "max-time"))
                          ELSE ZeroDuration,
              checkRedirect |-> policy.checkRedirect,
              maxRedirs |-> policy.maxRedirs],
          err |-> NoError]

\* client.go 17-58, once the proxy string is parsed
BuildClientWith(f, proxyStr, pu, policy) ==
    IF proxyStr # <<>> /\ pu.err # NoError
    THEN [client |-> NoClient, err |-> pu.err]
    ELSE [client |->
             [nil |-> FALSE,
              insecureSkipVerify |-> GetBool(f, "insecure"),
              dialTimeout |-> IF GetFloat64(f, "connect-timeout") > 0
                              THEN SecondsToDuration(GetFloat64(f, "connect-timeout"))
                              ELSE ZeroDuration,
              proxy |-> IF proxyStr # <<>> THEN pu.url ELSE NoURL,
              timeout |-> IF GetFloat64(f, "max-time") > 0
                          THEN SecondsToDuration(GetFloat64(f, "max-time"))
                          ELSE ZeroDuration,
              checkRedirect |-> policy.checkRedirect,
              maxRedirs |-> policy.maxRedirs],
          err |-> NoError]

\* BuildClient (client.go 16-60): [client, err]
BuildClient(f) ==
    BuildClientWith(f, GetString(f, "proxy"), ParseURL(GetString(f, "proxy")), RedirectPolicy(f))

\* A mutation of CheckRedirect: the limit stops one hop late.
CheckRedirectLate(c, viaLen) ==
    IF c.checkRedirect = "useLast" THEN ErrUseLastResponse
    ELSE IF c.checkRedirect = "limit"
    THEN (IF viaLen > c.maxRedirs THEN ErrUseLastResponse ELSE NoError)
    ELSE IF viaLen >= DefaultMaxRedirects THEN ErrTooManyRedirects ELSE NoError

\* what the client's redirect check returns for a via list of viaLen requests:
\* client.go 44-45 and 50-55; without a hook, net/http's default policy
CheckRedirect(c, viaLen) ==
    IF c.checkRedirect = "useLast" THEN ErrUseLastResponse
    ELSE IF c.checkRedirect = "limit"
    THEN (IF viaLen >= c.maxRedirs THEN ErrUseLastResponse ELSE NoError)
    ELSE IF viaLen >= DefaultMaxRedirects THEN ErrTooManyRedirects ELSE NoError

----------------------------------------------------------------------------
(* Inputs                                                                  *)

\* the most flags one command line sets
MaxParsed == 2
\* the largest --max-redirs value tried
MaxRedirs == 3
\* the longest via list handed to a redirect check
MaxVia == 12

URLPlain == <<"h", "t", "t", "p", ":", "/", "/", "x", ".", "c", "o", "m">>
URLQuery == <<"h", "t", "t", "p", ":", "/", "/", "x", ".", "c", "o", "m", "?", "e", "=", "1">>
URLArg == <<"h", "t", "t", "p", ":", "/", "/", "y", ".", "c", "o", "m", "/", "p">>
URLBad == <<":", "/", "/", "i", "n", "v", "a", "l", "i", "d">>

MethodValues == {<<"p", "o", "s", "t">>, <<"G", "E", "T">>, <<"P", "u", "t">>}
BodyData == <<"k", "e", "y", "=", "v", "a", "l", "u", "e">>
BodyBinary == <<"b">>
BodyRaw == <<"r", " ", "w">>
BodyUrlencode == <<"q", "=", "a", " ", "b">>
BodyJSON == <<"{", "\"", "k", "\"", ":", "1", "}">>
FormValues == {<< <<<<"f">>, <<"1">>>> >>, << <<<<"f">>, <<"1">>>>, <<<<"g">>, <<"2">>>> >>}
HeaderList == << <<"c", "o", "n", "t", "e", "n", "t", "-", "t", "y", "p", "e", ":", " ", "t", "e", "x", "t", "/", "p", "l", "a", "i", "n">>, <<"b", "a", "d">>, <<"X", "-", "A", ":", " ", "1">> >>

\* a flag set as the tests build it: each flag defined with the type its getter
\* reads and the wanted value as its default, the other names left undefined
RequestFlagSet(request, url, get, head, data, dataBinary, dataRaw, dataUrlencode, form, json, header) ==
    [n \in FlagNames |->
        CASE n = "request" -> request
          [] n = "url" -> url
          [] n = "get" -> get
          [] n = "head" -> head
          [] n = "data" -> data
          [] n = "data-binary" -> dataBinary
          [] n = "data-raw" -> dataRaw
          [] n = "data-urlencode" -> dataUrlencode
          [] n = "form" -> form
          [] n = "json" -> json
          [] n = "header" -> header
          [] OTHER -> Unregistered]

ArgLists == {<<>>, <<URLArg>>, <<URLBad>>, <<URLArg, URLPlain>>}

\* max-time values, in thousandths of a second: 0, -1, 1.5, 30, 1.001
MaxTimeValues == {0, 0 - 1000, 1500, 30000, 1001}

ProxyGood == <<"h", "t", "t", "p", ":", "/", "/", "p", ".", "c", "o", "m", ":", "8", "0", "8", "0">>

\* a flag set as the client tests build it, with the method and URL of a request
ClientFlagSet(insecure, connectTimeout, proxy, maxTime, location, maxRedirs) ==
    [n \in FlagNames |->
        CASE n = "request" -> StringFlag(StrGET)
          [] n = "url" -> StringFlag(URLPlain)
          [] n = "insecure" -> insecure
          [] n = "connect-timeout" -> connectTimeout
          [] n = "proxy" -> proxy
          [] n = "max-time" -> maxTime
          [] n = "location" -> location
          [] n = "max-redirs" -> maxRedirs
          [] OTHER -> Unregistered]

\* the values a command line gives a registered flag of each type
CmdStrings == {<<"P", "O", "S", "T">>, URLPlain}
CmdValues(typ) == IF typ = "bool" THEN {TRUE} ELSE IF typ = "string" THEN CmdStrings ELSE {}

\* data-urlencode values: no '=', one '=', a later '=' and an '&' after the first
EncodeValues == {<<"h", "e", "l", "l", "o", " ", "w", "o", "r", "l", "d">>, <<"q", "=", "h", "e", "l", "l", "o", " ", "w", "o", "r", "l", "d">>, <<"a", "=", "b", "=", "c", "&", "d">>}

\* header lists: a repeated name around an entry without a colon; a name the JSON
\* body also sets, an empty entry, an entry to trim with a later colon
HeaderRepeated == << <<"X", "-", "A", ":", " ", "1">>, <<"b", "a", "d">>, <<"x", "-", "a", ":", "2">> >>
HeaderMixed == << <<"C", "o", "n", "t", "e", "n", "t", "-", "T", "y", "p", "e", ":", " ", "t", "e", "x", "t", "/", "p", "l", "a", "i", "n">>, <<>>, <<" ", "X", "-", "B", " ", ":", " ", " ", "v", ":", "w", " ">> >>

\* cookie lists: the two pairs of one string; two strings with a piece without '=',
\* an empty piece and a later '='; nothing well-formed
CookieJar == << <<"s", "e", "s", "s", "i", "o", "n", "=", "a", "b", "c", "1", "2", "3", ";", " ", "u", "s", "e", "r", "=", "a", "d", "m", "i", "n">> >>
CookieMixed == << <<"a", "=", "1">>, <<"b", "a", "d", ";", " ", "b", "=", "2", ";", ";", " ", "c", "=", "x", "=", "y", " ">> >>
CookieBad == << <<"b", "a", "d">> >>

\* user values: user:pass, no colon, blanks to trim and a later colon
UserPlain == <<"a", "l", "i", "c", "e", ":", "s", "e", "c", "r", "e", "t">>
UserNoColon == <<"n", "o", "c", "o", "l", "o", "n">>
UserPadded == <<" ", "b", "o", "b", " ", ":", " ", "p", ":", "w", " ">>

BearerToken == <<"t", "o", "k">>

\* a flag set as the request tests build it, with a method and a URL, for the
\* header, cookie and credential options
AuxFlagSet(dataUrlencode, json, header, cookie, user, bearer) ==
    [n \in FlagNames |->
        CASE n = "request" -> StringFlag(StrPOST)
          [] n = "url" -> StringFlag(URLPlain)
          [] n = "data-urlencode" -> dataUrlencode
          [] n = "json" -> json
          [] n = "header" -> header
          [] n = "cookie" -> cookie
          [] n = "user" -> user
          [] n = "oauth2-bearer" -> bearer
          [] OTHER -> Unregistered]

\* values of the dedicated header options
RangeValue == <<"0", "-", "1", "0", "2", "3">>
UserAgentValue == <<"a", "g", "e", "n", "t", "/", "1">>
RefererValue == <<"h", "t", "t", "p", ":", "/", "/", "r", ".", "c", "o", "m">>

\* a header list naming each header a dedicated option sets
HeaderOverrides == << <<"a", "c", "c", "e", "p", "t", "-", "e", "n", "c", "o", "d", "i", "n", "g", ":", " ", "i", "d", "e", "n", "t", "i", "t", "y">>, <<"R", "a", "n", "g", "e", ":", " ", "b", "y", "t", "e", "s", "=", "5", "-">>, <<"U", "s", "e", "r", "-", "A", "g", "e", "n", "t", ":", " ", "o", "t", "h", "e", "r">>, <<"A", "u", "t", "h", "o", "r", "i", "z", "a", "t", "i", "o", "n", ":", " ", "T", "o", "k", "e", "n", " ", "t">>, <<"R", "e", "f", "e", "r", "e", "r", ":", " ", "h", "t", "t", "p", ":", "/", "/", "s", ".", "c", "o", "m">> >>

\* a flag set as the request tests build it, with a method and a URL, for the
\* dedicated header options and the header list
OptionsFlagSet(compressed, range, userAgent, user, bearer, referer, header) ==
    [n \in FlagNames |->
        CASE n = "request" -> StringFlag(StrGET)
          [] n = "url" -> StringFlag(URLPlain)
          [] n = "compressed" -> compressed
          [] n = "range" -> range
          [] n = "user-agent" -> userAgent
          [] n = "user" -> user
          [] n = "oauth2-bearer" -> bearer
          [] n = "referer" -> referer
          [] n = "header" -> header
          [] OTHER -> Unregistered]

\* URLs with a '?' inside the fragment only, and with a bare '?' at the end
URLFragment == <<"h", "t", "t", "p", ":", "/", "/", "x", ".", "c", "o", "m", "#", "f", "?", "x">>
URLBareQuery == <<"h", "t", "t", "p", ":", "/", "/", "x", ".", "c", "o", "m", "?">>

\* form mappings: one plain field, a value with '&' and '=', a key with '=', a
\* value with a space
FormField == << <<<<"f", "i", "e", "l", "d">>, <<"h", "e", "l", "l", "o">>>> >>
FormAmpersand == << <<<<"a">>, <<"1", "&", "b", "=", "2">>>> >>
FormKeyEquals == << <<<<"a", "=", "b">>, <<"c">>>> >>
FormSpace == << <<<<"k">>, <<"x", " ", "y">>>> >>
FormSpecials == {FormField, FormAmpersand, FormKeyEquals, FormSpace}

\* the goroutines that call a builder on the one command
MaxCalls == 2

\* a goroutine that has not called a builder yet; the fields after pc are the
\* locals of the call: the map iteration order it meets, method and rawURL
\* (request.go 14-15), body, rawURL and extraHeaders after folding (34-74), the
\* parsed proxy (client.go 28-29), and the results it returns; overlapped records
\* that the call took a step while another call was in flight
NoCall ==
    [kind |-> "none", pc |-> "idle", ord |-> <<>>, method |-> <<>>, rawURL |-> <<>>,
     fold |-> [rawURL |-> <<>>, body |-> <<>>, extraHeaders |-> <<>>],
     pu |-> URLError(NoError), res |-> [err |-> NoError], overlapped |-> FALSE]

\* a flag set with the options of both builders
SharedFlagSet(request, url, get, data, form, proxy, location, maxRedirs) ==
    [n \in FlagNames |->
        CASE n = "request" -> request
          [] n = "url" -> url
          [] n = "get" -> get
          [] n = "data" -> data
          [] n = "form" -> form
          [] n = "proxy" -> proxy
          [] n = "location" -> location
          [] n = "max-redirs" -> maxRedirs
          [] OTHER -> Unregistered]

----------------------------------------------------------------------------
(* State machine                                                           *)

Idle ==
    /\ parsed = 0
    /\ mapOrder = <<>>
    /\ reqDone = FALSE /\ req = NoRequest /\ reqErr = NoError
    /\ clientDone = FALSE /\ client = NoClient /\ clientErr = NoError
    /\ doState = "idle" /\ via = 0 /\ resp = "none" /\ doErr = NoError
    /\ calls = [i \in 1..MaxCalls |-> NoCall]

\* a new cobra.Command: nothing registered, nothing parsed, nothing built
Init ==
    /\ registered = FALSE
    /\ flags = EmptyFlagSet
    /\ args = <<>>
    /\ Idle

\* a command whose flags the request tests defined
InitRequest ==
    /\ registered = FALSE
    /\ \E request \in {Unregistered} \cup {StringFlag(m) : m \in MethodValues},
          url \in {Unregistered, StringFlag(URLPlain), StringFlag(URLQuery)},
          get \in {Unregistered, BoolFlag(TRUE)},
          head \in {Unregistered, BoolFlag(TRUE)},
          data \in {Unregistered, StringFlag(BodyData)},
          dataBinary \in {Unregistered, StringFlag(BodyBinary)},
          dataRaw \in {Unregistered, StringFlag(BodyRaw)},
          dataUrlencode \in {Unregistered, StringFlag(BodyUrlencode)},
          form \in {Unregistered} \cup {StringToStringFlag(m) : m \in FormValues},
          json \in {Unregistered, StringFlag(BodyJSON)},
          header \in {Unregistered, StringArrayFlag(HeaderList)} :
            flags = RequestFlagSet(request, url, get, head, data, dataBinary, dataRaw,
                                   dataUrlencode, form, json, header)
    /\ args \in ArgLists
    /\ Idle

\* a command whose flags the client tests defined
InitClient ==
    /\ registered = FALSE
    /\ \E insecure \in {Unregistered, BoolFlag(TRUE)},
          connectTimeout \in {Unregistered, Float64Flag(0), Float64Flag(5000)},
          proxy \in {Unregistered, StringFlag(<<>>), StringFlag(ProxyGood), StringFlag(URLBad)},
          maxTime \in {Unregistered} \cup {Float64Flag(x) : x \in MaxTimeValues},
          location \in {Unregistered, BoolFlag(FALSE), BoolFlag(TRUE)},
          maxRedirs \in {Unregistered} \cup {IntFlag(i) : i \in -1..MaxRedirs} :
            flags = ClientFlagSet(insecure, connectTimeout, proxy, maxTime, location,
                                  maxRedirs)
    /\ args = <<>>
    /\ Idle

\* a command whose flags the request tests defined for headers, cookies and credentials
InitAux ==
    /\ registered = FALSE
    /\ \E dataUrlencode \in {Unregistered} \cup {StringFlag(v) : v \in EncodeValues},
          json \in {Unregistered, StringFlag(BodyJSON)},
          header \in {Unregistered, StringArrayFlag(HeaderRepeated), StringArrayFlag(HeaderMixed)},
          cookie \in {Unregistered, StringArrayFlag(CookieJar), StringArrayFlag(CookieMixed), StringArrayFlag(CookieBad)},
          user \in {Unregistered, StringFlag(UserPlain), StringFlag(UserNoColon), StringFlag(UserPadded)},
          bearer \in {Unregistered, StringFlag(BearerToken)} :
            flags = AuxFlagSet(dataUrlencode, json, header, cookie, user, bearer)
    /\ args = <<>>
    /\ Idle

\* a command whose flags the request tests defined for the dedicated header options
InitOptions ==
    /\ registered = FALSE
    /\ \E compressed \in {Unregistered, BoolFlag(TRUE)},
          range \in {Unregistered, StringFlag(RangeValue)},
          userAgent \in {Unregistered, StringFlag(UserAgentValue)},
          user \in {Unregistered, StringFlag(UserPlain)},
          bearer \in {Unregistered, StringFlag(BearerToken)},
          referer \in {Unregistered, StringFlag(RefererValue)},
          header \in {Unregistered, StringArrayFlag(HeaderOverrides)} :
            flags = OptionsFlagSet(compressed, range, userAgent, user, bearer, referer, header)
    /\ args = <<>>
    /\ Idle

\* a command whose flags the request tests defined for the bodies folded into the
\* URL and for the form bodies
InitBody ==
    /\ registered = FALSE
    /\ \E request \in {Unregistered, StringFlag(StrPOST)},
          url \in {StringFlag(URLPlain), StringFlag(URLQuery), StringFlag(URLFragment), StringFlag(URLBareQuery)},
          get \in {Unregistered, BoolFlag(TRUE)},
          data \in {Unregistered, StringFlag(BodyData)},
          form \in {Unregistered} \cup {StringToStringFlag(m) : m \in FormSpecials \cup FormValues},
          json \in {Unregistered, StringFlag(BodyJSON)} :
            flags = RequestFlagSet(request, url, get, Unregistered, data, Unregistered,
                                   Unregistered, Unregistered, form, json, Unregistered)
    /\ args = <<>>
    /\ Idle

\* a command with the options of both builders, about to be shared by goroutines
InitShared ==
    /\ registered = FALSE
    /\ \E request \in {Unregistered, StringFlag(StrPOST)},
          url \in {StringFlag(URLQuery)},
          get \in {Unregistered, BoolFlag(TRUE)},
          data \in {Unregistered},
          form \in {StringToStringFlag(m) : m \in FormValues},
          proxy \in {StringFlag(ProxyGood), StringFlag(URLBad)},
          location \in {BoolFlag(TRUE)},
          maxRedirs \in {IntFlag(MaxRedirs)} :
            flags = SharedFlagSet(request, url, get, data, form, proxy, location, maxRedirs)
    /\ args = <<URLArg>>
    /\ Idle

\* cobracurl.RegisterFlags(cmd.Flags())
RegisterFlagsCall ==
    /\ ~registered
    /\ flags = EmptyFlagSet
    /\ registered' = TRUE
    /\ flags' = RegisterFlags
    /\ UNCHANGED calls
    /\ UNCHANGED <<args, parsed, mapOrder, reqDone, req, reqErr, clientDone, client,
                   clientErr, doState, via, resp, doErr>>

\* the command line sets a registered flag (pflag's FlagSet.Set)
SetFlag ==
    /\ registered
    /\ parsed < MaxParsed
    /\ ~reqDone /\ ~clientDone
    /\ \E n \in FlagNames :
         /\ flags[n].typ # "none"
         /\ \E v \in CmdValues(flags[n].typ) :
              /\ flags[n].val # v
              /\ flags' = [flags EXCEPT ![n].val = v]
    /\ parsed' = parsed + 1
    /\ UNCHANGED calls
    /\ UNCHANGED <<registered, args, mapOrder, reqDone, req, reqErr, clientDone, client,
                   clientErr, doState, via, resp, doErr>>

\* the command line carries a positional argument
SetArgs ==
    /\ registered
    /\ ~reqDone /\ ~clientDone
    /\ args = <<>>
    /\ args' \in ArgLists \ {<<>>}
    /\ UNCHANGED calls
    /\ UNCHANGED <<registered, flags, parsed, mapOrder, reqDone, req, reqErr, clientDone,
                   client, clientErr, doState, via, resp, doErr>>

\* the caller receives BuildRequest's two results
ReturnRequest(res) == req' = res.req /\ reqErr' = res.err

\* the caller receives BuildClient's two results
ReturnClient(res) == client' = res.client /\ clientErr' = res.err

\* client.Do after the redirect check returned err
RedirectChecked(err) ==
    /\ doState' = IF err = NoError THEN "follow" ELSE "returned"
    /\ doErr' = IF err \in {NoError, ErrUseLastResponse} THEN NoError ELSE err

\* req, err := cobracurl.BuildRequest(cmd, args)
BuildRequestCall ==
    /\ doState = "idle"
    /\ \E ord \in MapOrders(Len(GetStringToString(flags, "form"))) :
         /\ mapOrder' = ord
         /\ ReturnRequest(BuildRequest(flags, args, ord))
    /\ reqDone' = TRUE
    /\ UNCHANGED calls
    /\ UNCHANGED <<registered, flags, args, parsed, clientDone, client, clientErr,
                   doState, via, resp, doErr>>

\* client, err := cobracurl.BuildClient(cmd)
BuildClientCall ==
    /\ doState = "idle"
    /\ ReturnClient(BuildClient(flags))
    /\ clientDone' = TRUE
    /\ UNCHANGED calls
    /\ UNCHANGED <<registered, flags, args, parsed, mapOrder, reqDone, req, reqErr,
                   doState, via, resp, doErr>>

\* client.Do(req): the request, or the request of the redirect being followed, is sent
DoSend ==
    /\ reqDone /\ reqErr = NoError
    /\ clientDone /\ clientErr = NoError
    /\ doState \in {"idle", "follow"}
    /\ via' = via + 1
    /\ doState' = "sent"
    /\ UNCHANGED calls
    /\ UNCHANGED <<registered, flags, args, parsed, mapOrder, reqDone, req, reqErr,
                   clientDone, client, clientErr, resp, doErr>>

\* the server answers with a redirect or with a final response; a final response
\* ends client.Do
ServerRespond ==
    /\ doState = "sent"
    /\ \E r \in {"redirect", "final"} :
         /\ resp' = r
         /\ doState' = IF r = "final" THEN "returned" ELSE "redirected"
    /\ UNCHANGED calls
    /\ UNCHANGED <<registered, flags, args, parsed, mapOrder, reqDone, req, reqErr,
                   clientDone, client, clientErr, via, doErr>>

\* client.Do consults the redirect check with the requests issued so far as via:
\* nil follows, ErrUseLastResponse returns the response, any other error is returned
DoCheckRedirect ==
    /\ doState = "redirected"
    /\ RedirectChecked(CheckRedirect(client, via))
    /\ UNCHANGED calls
    /\ UNCHANGED <<registered, flags, args, parsed, mapOrder, reqDone, req, reqErr,
                   clientDone, client, clientErr, via, resp>>

\* A mutation of OptionsAfterRead: reading the options consumes the url option.
OptionsConsumed(f) == [f EXCEPT !["url"] = Unregistered]

\* the flag set after a builder read it: pflag's typed getters look the flag up
\* and convert its value, they write nothing
OptionsAfterRead(f) == f

InFlight(c) == c.kind # "none" /\ c.pc # "done"

\* call i takes a step that leaves it with the locals c: the step read the
\* options, wrote its own locals and nothing else
CallStep(i, c) ==
    /\ calls' = [calls EXCEPT ![i] =
                    [c EXCEPT !.overlapped =
                        @ \/ \E j \in 1..MaxCalls : j # i /\ InFlight(calls[j])]]
    /\ flags' = OptionsAfterRead(flags)
    /\ UNCHANGED <<registered, args, parsed, mapOrder, reqDone, req, reqErr, clientDone,
                   client, clientErr, doState, via, resp, doErr>>

\* a goroutine calls BuildRequest(cmd, args)
RequestStart ==
    \E i \in 1..MaxCalls :
        /\ calls[i].kind = "none"
        /\ \E ord \in MapOrders(Len(GetStringToString(flags, "form"))) :
                CallStep(i, [calls[i] EXCEPT !.kind = "request", !.pc = "resolve", !.ord = ord])

\* request.go 14-32: method and rawURL are resolved, the call returns if one is missing
RequestResolved(i, method, rawURL) ==
    IF MissingRequiredFields(method, rawURL)
    THEN CallStep(i, [calls[i] EXCEPT !.pc = "done",
                         !.res = [req |-> NoRequest, err |-> ErrMissingRequiredFields]])
    ELSE CallStep(i, [calls[i] EXCEPT !.pc = "body", !.method = method, !.rawURL = rawURL])

RequestResolve ==
    \E i \in 1..MaxCalls :
        /\ calls[i].kind = "request" /\ calls[i].pc = "resolve"
        /\ RequestResolved(i, ResolveMethod(flags), ResolveURL(flags, args))

\* request.go 34-74: the body is resolved and, with --get, folded into rawURL
RequestBody ==
    \E i \in 1..MaxCalls :
        /\ calls[i].kind = "request" /\ calls[i].pc = "body"
        /\ CallStep(i, [calls[i] EXCEPT !.pc = "construct",
                            !.fold = FoldIntoURL(GetBool(flags, "get"), calls[i].rawURL,
                                                 ResolveBody(flags, calls[i].ord))])

\* request.go 76-143: the request is constructed, its headers and cookies are set,
\* the call returns
RequestConstruct ==
    \E i \in 1..MaxCalls :
        /\ calls[i].kind = "request" /\ calls[i].pc = "construct"
        /\ CallStep(i, [calls[i] EXCEPT !.pc = "done",
                            !.res = BuildFolded(flags, calls[i].method, calls[i].fold)])

\* a goroutine calls BuildClient(cmd)
ClientStart ==
    \E i \in 1..MaxCalls :
        /\ calls[i].kind = "none"
        /\ CallStep(i, [calls[i] EXCEPT !.kind = "client", !.pc = "transport"])

\* client.go 17-29: the transport is set up and the proxy string parsed
ClientTransport ==
    \E i \in 1..MaxCalls :
        /\ calls[i].kind = "client" /\ calls[i].pc = "transport"
        /\ CallStep(i, [calls[i] EXCEPT !.pc = "policy",
                            !.pu = ParseURL(GetString(flags, "proxy"))])

\* client.go 30-59: the parse error is returned, or the client with its timeout and
\* redirect policy
ClientPolicy ==
    \E i \in 1..MaxCalls :
        /\ calls[i].kind = "client" /\ calls[i].pc = "policy"
        /\ CallStep(i, [calls[i] EXCEPT !.pc = "done",
                            !.res = BuildClientWith(flags, GetString(flags, "proxy"),
                                                    calls[i].pu, RedirectPolicy(flags))])

Next ==
    \/ RegisterFlagsCall
    \/ SetFlag
    \/ SetArgs
    \/ BuildRequestCall
    \/ BuildClientCall

\* the public API used as the README shows
Spec == Init /\ [][Next]_vars

NextRequest == BuildRequestCall

\* BuildRequest over the flag sets of its tests
SpecRequest == InitRequest /\ [][NextRequest]_vars

NextClient ==
    \/ BuildRequestCall
    \/ BuildClientCall
    \/ DoSend
    \/ ServerRespond
    \/ DoCheckRedirect

\* BuildClient over the flag sets of its tests, and the built client at work
SpecClient == InitClient /\ [][NextClient]_vars

NextAux == BuildRequestCall

\* BuildRequest over the header, cookie and credential flag sets of its tests
SpecAux == InitAux /\ [][NextAux]_vars

NextOptions == BuildRequestCall

\* BuildRequest over the dedicated header options of its tests
SpecOptions == InitOptions /\ [][NextOptions]_vars

NextBody == BuildRequestCall

\* BuildRequest over URLs with a fragment or a bare '?', and over form mappings
SpecBody == InitBody /\ [][NextBody]_vars

NextShared ==
    \/ RequestStart
    \/ RequestResolve
    \/ RequestBody
    \/ RequestConstruct
    \/ ClientStart
    \/ ClientTransport
    \/ ClientPolicy

\* goroutines calling the builders concurrently on one command
SpecShared == InitShared /\ [][NextShared]_vars

----------------------------------------------------------------------------
(* Properties of BuildRequest, over the flag sets of SpecRequest           *)

StrPUT == <<"P", "U", "T">>

\* the method written out for each value the request option takes here
ExpectedMethod ==
    IF GetString(flags, "request") = <<"p", "o", "s", "t">> THEN StrPOST
    ELSE IF GetString(flags, "request") = <<"P", "u", "t">> THEN StrPUT
    ELSE IF GetString(flags, "request") = StrGET THEN StrGET
    ELSE IF GetBool(flags, "get") THEN StrGET
    ELSE IF GetBool(flags, "head") THEN StrHEAD
    ELSE <<>>

MethodUnresolved ==
    GetString(flags, "request") = <<>> /\ ~GetBool(flags, "get") /\ ~GetBool(flags, "head")

URLUnresolved == GetString(flags, "url") = <<>> /\ (args = <<>> \/ args[1] = <<>>)

\* the body source of highest precedence that is set, "none" when none is
Winner ==
    IF flags["data"].typ # "none" THEN "data"
    ELSE IF flags["data-binary"].typ # "none" THEN "data-binary"
    ELSE IF flags["data-raw"].typ # "none" THEN "data-raw"
    ELSE IF flags["data-urlencode"].typ # "none" THEN "data-urlencode"
    ELSE IF flags["form"].typ # "none" THEN "form"
    ELSE IF flags["json"].typ # "none" THEN "json"
    ELSE "none"

\* the bodies the winning source may give, written out
ExpectedBodies ==
    CASE Winner = "data" -> {BodyData}
      [] Winner = "data-binary" -> {BodyBinary}
      [] Winner = "data-raw" -> {BodyRaw}
      [] Winner = "data-urlencode" -> {<<"q", "=", "a", "+", "b">>}
      [] Winner = "form" ->
            IF Len(flags["form"].val) = 1 THEN {<<"f", "=", "1">>} ELSE {<<"f", "=", "1", "&", "g", "=", "2">>, <<"g", "=", "2", "&", "f", "=", "1">>}
      [] Winner = "json" -> {BodyJSON}
      [] OTHER -> {<<>>}

KeyContentType == <<"C", "o", "n", "t", "e", "n", "t", "-", "T", "y", "p", "e">>
KeyAccept == <<"A", "c", "c", "e", "p", "t">>

\* the synthetic headers of the winning source, as header entries
ExpectedSynthetic ==
    CASE Winner = "form" -> << <<KeyContentType, <<"a", "p", "p", "l", "i", "c", "a", "t", "i", "o", "n", "/", "x", "-", "w", "w", "w", "-", "f", "o", "r", "m", "-", "u", "r", "l", "e", "n", "c", "o", "d", "e", "d">>>> >>
      [] Winner = "json" -> << <<KeyContentType, <<"a", "p", "p", "l", "i", "c", "a", "t", "i", "o", "n", "/", "j", "s", "o", "n">>>>, <<KeyAccept, <<"a", "p", "p", "l", "i", "c", "a", "t", "i", "o", "n", "/", "j", "s", "o", "n">>>> >>
      [] OTHER -> <<>>

\* the entries the explicit header list adds: its first and third entry, the
\* second has no colon
ExpectedExplicit ==
    IF flags["header"].typ = "none" THEN <<>>
    ELSE << <<KeyContentType, <<"t", "e", "x", "t", "/", "p", "l", "a", "i", "n">>>>, <<<<"X", "-", "A">>, <<"1">>>> >>

Built == reqDone /\ reqErr = NoError

\* --get is set and a body source is set
Folds == GetBool(flags, "get") /\ Winner # "none"

\* the URL BuildRequest starts from, parsed
OriginalURL == ParseURL(ResolveURL(flags, args)).url

\* C1: BuildRequest returns ErrMissingRequiredFields and no request exactly when the
\* resolved method (request, get, head) is empty or the resolved URL (url option,
\* first positional argument) is empty.
C1_MissingExactly ==
    reqDone =>
        /\ (reqErr = ErrMissingRequiredFields) <=> (MethodUnresolved \/ URLUnresolved)
        /\ (reqErr = ErrMissingRequiredFields) => (req = NoRequest)

\* method, URL option and positional URL all absent, and the build refused
C1_Witness ==
    /\ reqDone
    /\ flags["request"].typ = "none" /\ flags["get"].typ = "none" /\ flags["head"].typ = "none"
    /\ flags["url"].typ = "none" /\ args = <<>>
    /\ reqErr = ErrMissingRequiredFields /\ req = NoRequest

\* C4: the request option wins over get and head, get wins over head, head alone
\* gives HEAD, none leaves the method unresolved; the request's method is the
\* upper-cased resolved value.
C4_MethodPrecedence ==
    reqDone =>
        /\ (ExpectedMethod = <<>>) => (reqErr = ErrMissingRequiredFields)
        /\ (reqErr = NoError) => (req.method = ExpectedMethod)

\* get and head both set without a request option: GET
C4_Witness ==
    /\ Built
    /\ flags["request"].typ = "none" /\ GetBool(flags, "get") /\ GetBool(flags, "head")
    /\ req.method = StrGET

\* a lower-case request option with get and head set: the option, upper-cased
C4_WitnessUpper ==
    /\ Built
    /\ GetString(flags, "request") = <<"p", "o", "s", "t">> /\ GetBool(flags, "get") /\ GetBool(flags, "head")
    /\ req.method = StrPOST

\* C5: the body is that of the first of data, data-binary, data-raw, data-urlencode,
\* form, json that is set, whatever the others hold, and the synthetic headers on the
\* request are those of that source only (with --get the body sits at the end of the
\* query and no synthetic header is set).
C5_BodyFirstMatch ==
    Built =>
        IF Folds
        THEN /\ \E b \in ExpectedBodies :
                    req.url.rawQuery = b \/ req.url.rawQuery = OriginalURL.rawQuery \o <<"&">> \o b
             /\ \A i \in 1..Len(req.header) : req.header[i] \in {ExpectedExplicit[j] : j \in 1..Len(ExpectedExplicit)}
        ELSE /\ req.body \in ExpectedBodies
             /\ req.header = ExpectedSynthetic \o ExpectedExplicit

\* all six body sources set, no --get: the body is the data value, no synthetic header
C5_Witness ==
    /\ Built
    /\ \A n \in {"data", "data-binary", "data-raw", "data-urlencode", "form", "json"} :
            flags[n].typ # "none"
    /\ ~GetBool(flags, "get")
    /\ flags["header"].typ = "none"
    /\ req.body = BodyData /\ req.header = <<>>

\* C6: with --get and a non-empty resolved body the request's body is empty, its URL
\* is the original URL with the raw body appended after a separator, no synthetic
\* header is set and the explicit header entries are applied; with --get and an empty
\* resolved body the URL is the original URL.
C6_ForceGetFolds ==
    (Built /\ GetBool(flags, "get")) =>
        IF Winner # "none"
        THEN /\ req.body = <<>>
             /\ \E b \in ExpectedBodies :
                    req.url = [OriginalURL EXCEPT !.rawQuery =
                                  IF @ = <<>> THEN b ELSE @ \o <<"&">> \o b]
             /\ req.header = ExpectedExplicit
        ELSE req.url = OriginalURL /\ req.body = <<>>

\* --get with a JSON body and an explicit header list: the body is in the query
\* after the existing one, the JSON headers are gone, the explicit entries are there
C6_Witness ==
    /\ Built /\ GetBool(flags, "get") /\ Winner = "json"
    /\ GetString(flags, "url") = URLQuery
    /\ flags["header"].typ # "none"
    /\ req.body = <<>>
    /\ req.url.rawQuery = <<"e", "=", "1">> \o <<"&">> \o BodyJSON
    /\ req.header = ExpectedExplicit

----------------------------------------------------------------------------
(* Properties of the public API, over Spec                                 *)

\* a non-empty URL is supplied, by --url or as the positional argument
URLSupplied == GetString(flags, "url") # <<>> \/ (args # <<>> /\ args[1] # <<>>)

\* a method is selected on the command line through a flag RegisterFlags
\* registered: --method, --get or --head
MethodSelected ==
    \/ flags["method"].val = StrPOST
    \/ flags["get"].val # RegisterFlags["get"].val
    \/ flags["head"].val # RegisterFlags["head"].val

\* C2: after RegisterFlags, with a non-empty URL supplied and a method selected
\* through the registered flags, BuildRequest returns a request and no error.
C2_PublicAPIBuilds ==
    (registered /\ reqDone /\ URLSupplied /\ MethodSelected) =>
        (reqErr = NoError /\ req # NoRequest)

\* C3: every flag name BuildRequest or BuildClient reads is registered by
\* RegisterFlags, with the type the builder's getter reads it as.
C3_AllReadFlagsRegistered ==
    registered =>
        \A n \in RequestFlagNames \cup ClientFlagNames : flags[n].typ = ReadType(n)

----------------------------------------------------------------------------
(* Properties of BuildClient and of the built client, over SpecClient      *)

ClientBuilt == clientDone /\ clientErr = NoError

\* C8: with location unset or false the redirect check returns the use-last-response
\* sentinel for every via list, whatever max-redirs is, so that the client issues one
\* request and returns the first redirect response without an error.
C8_NoFollowByDefault ==
    (ClientBuilt /\ ~GetBool(flags, "location")) =>
        /\ \A n \in 0..MaxVia : CheckRedirect(client, n) = ErrUseLastResponse
        /\ via <= 1
        /\ (doState = "returned" /\ resp = "redirect") => (via = 1 /\ doErr = NoError)

\* no location, a positive max-redirs, and the first redirect response handed back
C8_Witness ==
    /\ ClientBuilt
    /\ flags["location"].typ = "none" /\ GetInt(flags, "max-redirs") > 0
    /\ doState = "returned" /\ resp = "redirect" /\ via = 1 /\ doErr = NoError

\* C9: with location set and max-redirs = N > 0, against a server that redirects
\* forever the client follows exactly N redirects (issues N + 1 requests) and then
\* returns the last redirect response without an error.
C9_FollowsNRedirects ==
    (ClientBuilt /\ GetBool(flags, "location") /\ GetInt(flags, "max-redirs") > 0
        /\ doState = "returned" /\ resp = "redirect") =>
        (via = GetInt(flags, "max-redirs") + 1 /\ doErr = NoError)

\* C10: with location set and max-redirs = N > 0 the redirect check returns nil for
\* every via list shorter than N and the use-last-response sentinel, never another
\* error, for every via list of length N or more.
C10_CheckByViaLength ==
    (ClientBuilt /\ GetBool(flags, "location") /\ GetInt(flags, "max-redirs") > 0) =>
        \A n \in 0..MaxVia :
            CheckRedirect(client, n) =
                IF n < GetInt(flags, "max-redirs") THEN NoError ELSE ErrUseLastResponse

\* location with max-redirs = 3: the check let two hops pass and stopped the third
C10_Witness ==
    /\ ClientBuilt
    /\ GetBool(flags, "location") /\ GetInt(flags, "max-redirs") = 3
    /\ doState = "returned" /\ resp = "redirect" /\ via = 3 /\ doErr = NoError

\* C11: with location set and max-redirs absent, zero or negative, no redirect
\* check is installed: the client is the one built with max-redirs absent, every
\* redirect is followed, and only the built-in limit of net/http ends a chain.
C11_NoCapNoCheck ==
    (ClientBuilt /\ GetBool(flags, "location") /\ GetInt(flags, "max-redirs") <= 0) =>
        /\ client.checkRedirect = "nil"
        /\ client = BuildClient([flags EXCEPT !["max-redirs"] = Unregistered]).client
        /\ \A n \in 0..MaxVia :
                CheckRedirect(client, n) =
                    IF n < DefaultMaxRedirects THEN NoError ELSE ErrTooManyRedirects
        /\ (doState = "returned" /\ resp = "redirect") =>
                (via = DefaultMaxRedirects /\ doErr = ErrTooManyRedirects)

\* location with max-redirs = 0: redirects were followed until the built-in limit
C11_Witness ==
    /\ ClientBuilt
    /\ GetBool(flags, "location") /\ flags["max-redirs"] = IntFlag(0)
    /\ doState = "returned" /\ resp = "redirect"
    /\ via = DefaultMaxRedirects /\ doErr = ErrTooManyRedirects

\* C13: BuildClient returns an error and no client for a non-empty proxy string
\* that does not parse, no proxy and no error for an empty or absent one, a client
\* routing through the parsed URL for one that parses; it returns an error in no
\* other case.
C13_ProxyParseOnlyError ==
    clientDone =>
        /\ (GetString(flags, "proxy") = <<>>) =>
                (clientErr = NoError /\ client # NoClient /\ client.proxy = NoURL)
        /\ (GetString(flags, "proxy") = URLBad) =>
                (clientErr = ErrMissingScheme /\ client = NoClient)
        /\ (GetString(flags, "proxy") = ProxyGood) =>
                /\ clientErr = NoError /\ client # NoClient
                /\ client.proxy.scheme = <<"h", "t", "t", "p">>
                /\ client.proxy.host = <<"p", ".", "c", "o", "m", ":", "8", "0", "8", "0">>
        /\ (clientErr # NoError) => (GetString(flags, "proxy") = URLBad)

\* the proxy "://invalid": an error and no client
C13_Witness ==
    /\ clientDone
    /\ GetString(flags, "proxy") = URLBad
    /\ clientErr = ErrMissingScheme /\ client = NoClient

\* the proxy "http://p.com:8080": a client routing through it
C13_WitnessGood ==
    /\ ClientBuilt
    /\ GetString(flags, "proxy") = ProxyGood
    /\ client.proxy.host = <<"p", ".", "c", "o", "m", ":", "8", "0", "8", "0">>

\* C14: the client's timeout is exactly max-time seconds, a whole number of
\* milliseconds for a max-time given in thousandths, whenever max-time > 0, and zero
\* whenever max-time is zero, negative or absent; a dial timeout is installed only
\* when connect-timeout > 0.
C14_ExactMillis ==
    ClientBuilt =>
        /\ client.timeout =
                IF GetFloat64(flags, "max-time") > 0
                THEN [ms |-> GetFloat64(flags, "max-time"), ns |-> 0]
                ELSE ZeroDuration
        /\ (client.dialTimeout # ZeroDuration) <=> (GetFloat64(flags, "connect-timeout") > 0)

\* C12: a builder called again on the same flags and arguments returns what it
\* returned before, field for field: the same request (method, URL, headers, body
\* bytes) and error from BuildRequest, the same client and error from BuildClient.
C12_Idempotent ==
    [][/\ (reqDone /\ BuildRequestCall) => (req' = req /\ reqErr' = reqErr)
       /\ (clientDone /\ BuildClientCall) => (client' = client /\ clientErr' = clientErr)]_vars

\* C15: a non-empty url option is the target and the positional arguments are
\* ignored; with the url option empty the first positional argument is the target;
\* with neither the URL is unresolved and the build is refused.
C15_URLResolution ==
    (reqDone /\ ~MethodUnresolved) =>
        /\ (GetString(flags, "url") # <<>>) =>
                /\ Built
                /\ req.url.host = <<"x", ".", "c", "o", "m">> /\ req.url.path = <<>>
        /\ (GetString(flags, "url") = <<>> /\ args # <<>> /\ args[1] = URLArg) =>
                /\ Built
                /\ req.url.host = <<"y", ".", "c", "o", "m">> /\ req.url.path = <<"/", "p">>
        /\ (GetString(flags, "url") = <<>> /\ args # <<>> /\ args[1] = URLBad) =>
                (reqErr = ErrMissingScheme /\ req = NoRequest)
        /\ (GetString(flags, "url") = <<>> /\ args = <<>>) =>
                (reqErr = ErrMissingRequiredFields /\ req = NoRequest)

\* the url option and a positional URL both given: the request goes to the option's
C15_Witness ==
    /\ Built
    /\ GetString(flags, "url") = URLPlain /\ args = <<URLArg>>
    /\ req.url.host = <<"x", ".", "c", "o", "m">>

\* no url option and two positional URLs: the request goes to the first
C15_WitnessArgs ==
    /\ Built
    /\ flags["url"].typ = "none" /\ args = <<URLArg, URLPlain>>
    /\ req.url.host = <<"y", ".", "c", "o", "m">>

----------------------------------------------------------------------------
(* Properties of BuildRequest, over the flag sets of SpecAux               *)

\* the values of the request's Cookie, Authorization and Content-Type headers
CookieLines == HeaderValues(req.header, CookieKey)
AuthorizationValues == HeaderValues(req.header, KeyAuthorization)
ContentTypeValues == HeaderValues(req.header, KeyContentType)

\* the JSON body is the resolved body: its synthetic headers are set
JSONWins == GetString(flags, "data-urlencode") = <<>> /\ GetString(flags, "json") # <<>>

\* C16: a data-urlencode value with '=' gives the text up to and including the first
\* '=' unchanged, followed by the percent-encoding of the rest, later '=' included; a
\* value without '=' gives the percent-encoding of the whole value.
C16_EncodeAfterFirstEquals ==
    (Built /\ GetString(flags, "data-urlencode") # <<>>) =>
        req.body =
            CASE GetString(flags, "data-urlencode") = <<"h", "e", "l", "l", "o", " ", "w", "o", "r", "l", "d">> -> <<"h", "e", "l", "l", "o", "+", "w", "o", "r", "l", "d">>
              [] GetString(flags, "data-urlencode") = <<"q", "=", "h", "e", "l", "l", "o", " ", "w", "o", "r", "l", "d">> -> <<"q", "=", "h", "e", "l", "l", "o", "+", "w", "o", "r", "l", "d">>
              [] GetString(flags, "data-urlencode") = <<"a", "=", "b", "=", "c", "&", "d">> -> <<"a", "=", "b", "%", "3", "D", "c", "%", "2", "6", "d">>
              [] OTHER -> req.body

\* "a=b=c&d": the first '=' kept, the second '=' and the '&' encoded
C16_Witness ==
    /\ Built
    /\ GetString(flags, "data-urlencode") = <<"a", "=", "b", "=", "c", "&", "d">>
    /\ req.body = <<"a", "=", "b", "%", "3", "D", "c", "%", "2", "6", "d">>

\* C17: each cookie string is split on ';', each piece trimmed and split on its first
\* '=', pieces without '=' and empty pieces are skipped, and the request carries one
\* cookie per remaining piece, in the order of the strings and of their pieces.
C17_CookiePairs ==
    Built =>
        CookieLines =
            IF GetStringArray(flags, "cookie") = CookieJar
            THEN << <<"s", "e", "s", "s", "i", "o", "n", "=", "a", "b", "c", "1", "2", "3", ";", " ", "u", "s", "e", "r", "=", "a", "d", "m", "i", "n">> >>
            ELSE IF GetStringArray(flags, "cookie") = CookieMixed
            THEN << <<"a", "=", "1", ";", " ", "b", "=", "2", ";", " ", "c", "=", "x", "=", "y">> >>
            ELSE <<>>

\* the string "session=abc123; user=admin": the two cookies
C17_Witness ==
    /\ Built
    /\ GetStringArray(flags, "cookie") = CookieJar
    /\ CookieLines = << <<"s", "e", "s", "s", "i", "o", "n", "=", "a", "b", "c", "1", "2", "3", ";", " ", "u", "s", "e", "r", "=", "a", "d", "m", "i", "n">> >>

\* two strings with a piece without '=' and an empty piece between the pairs
C17_WitnessSkips ==
    /\ Built
    /\ GetStringArray(flags, "cookie") = CookieMixed
    /\ CookieLines = << <<"a", "=", "1", ";", " ", "b", "=", "2", ";", " ", "c", "=", "x", "=", "y">> >>

\* C18: the explicit header entries are added after the synthetic headers, in list
\* order, split on the first ':' and trimmed: an entry without ':' adds nothing,
\* two entries of one name both appear in list order, and an entry naming a
\* synthetic header follows the synthetic value.
C18_HeadersAdded ==
    Built =>
        /\ (GetStringArray(flags, "header") = HeaderRepeated) =>
                /\ HeaderValues(req.header, <<"X", "-", "A">>) = << <<"1">>, <<"2">> >>
                /\ HeaderValues(req.header, <<"B", "a", "d">>) = <<>>
                /\ ContentTypeValues = IF JSONWins THEN << <<"a", "p", "p", "l", "i", "c", "a", "t", "i", "o", "n", "/", "j", "s", "o", "n">> >> ELSE <<>>
        /\ (GetStringArray(flags, "header") = HeaderMixed) =>
                /\ ContentTypeValues =
                        IF JSONWins THEN << <<"a", "p", "p", "l", "i", "c", "a", "t", "i", "o", "n", "/", "j", "s", "o", "n">>, <<"t", "e", "x", "t", "/", "p", "l", "a", "i", "n">> >> ELSE << <<"t", "e", "x", "t", "/", "p", "l", "a", "i", "n">> >>
                /\ HeaderValues(req.header, <<"X", "-", "B">>) = << <<"v", ":", "w">> >>
        /\ \A i \in 1..Len(req.header) :
                req.header[i][1] \in {KeyContentType, KeyAccept, KeyAuthorization, CookieKey,
                                     <<"X", "-", "A">>, <<"X", "-", "B">>}

\* a JSON body and an explicit Content-Type: the synthetic value, then the explicit
C18_Witness ==
    /\ Built /\ JSONWins
    /\ GetStringArray(flags, "header") = HeaderMixed
    /\ ContentTypeValues = << <<"a", "p", "p", "l", "i", "c", "a", "t", "i", "o", "n", "/", "j", "s", "o", "n">>, <<"t", "e", "x", "t", "/", "p", "l", "a", "i", "n">> >>

\* the repeated name: both values, in list order
C18_WitnessRepeated ==
    /\ Built
    /\ GetStringArray(flags, "header") = HeaderRepeated
    /\ HeaderValues(req.header, <<"X", "-", "A">>) = << <<"1">>, <<"2">> >>

C19_WitnessNoColon ==
    /\ Built
    /\ GetString(flags, "user") = UserNoColon /\ GetString(flags, "oauth2-bearer") = <<>>
    /\ AuthorizationValues = <<>>

\* C20: with the method and the URL resolved and well-formed, BuildRequest returns a
\* request and no error whatever the header list, the cookie list and the user option
\* hold, and the well-formed entries before and after a malformed one are applied.
C20_MalformedNotFatal ==
    reqDone =>
        /\ reqErr = NoError /\ req # NoRequest
        /\ (GetStringArray(flags, "header") = HeaderRepeated) =>
                \A v \in {<<"1">>, <<"2">>} :
                    \E i \in 1..Len(req.header) : req.header[i] = <<<<"X", "-", "A">>, v>>
        /\ (GetStringArray(flags, "header") = HeaderMixed) =>
                \E i \in 1..Len(req.header) : req.header[i] = <<<<"X", "-", "B">>, <<"v", ":", "w">>>>
        /\ (GetStringArray(flags, "cookie") = CookieMixed) =>
                HeaderGet(req.header, CookieKey) = <<"a", "=", "1", ";", " ", "b", "=", "2", ";", " ", "c", "=", "x", "=", "y">>

\* a header list, a cookie list and a user option, each with a malformed entry
C20_Witness ==
    /\ Built
    /\ GetStringArray(flags, "header") = HeaderRepeated
    /\ GetStringArray(flags, "cookie") = CookieMixed
    /\ GetString(flags, "user") = UserNoColon
    /\ HeaderGet(req.header, CookieKey) = <<"a", "=", "1", ";", " ", "b", "=", "2", ";", " ", "c", "=", "x", "=", "y">>
    /\ HeaderGet(req.header, <<"X", "-", "A">>) = <<"1">>

\* C24: with a well-formed user option and the oauth2-bearer option both set, the
\* request carries one Authorization value from the two, "Bearer <token>": the
\* bearer option is applied after basic auth and replaces it.
C24_BearerReplacesBasic ==
    (Built /\ GetString(flags, "user") \in {UserPlain, UserPadded}
           /\ GetString(flags, "oauth2-bearer") # <<>>) =>
        AuthorizationValues = << <<"B", "e", "a", "r", "e", "r", " ", "t", "o", "k">> >>

\* alice:secret with the token tok: Bearer tok alone
C24_Witness ==
    /\ Built
    /\ GetString(flags, "user") = UserPlain /\ GetString(flags, "oauth2-bearer") = BearerToken
    /\ AuthorizationValues = << <<"B", "e", "a", "r", "e", "r", " ", "t", "o", "k">> >>

----------------------------------------------------------------------------
(* Properties of BuildRequest, over the flag sets of SpecOptions           *)

\* the value the header list adds to a header it names, none without the list
Explicit(v) == IF GetStringArray(flags, "header") = HeaderOverrides THEN <<v>> ELSE <<>>

\* the Authorization value the user and oauth2-bearer options leave
OptionAuthorization ==
    IF GetString(flags, "oauth2-bearer") # <<>> THEN << <<"B", "e", "a", "r", "e", "r", " ", "t", "o", "k">> >>
    ELSE IF GetString(flags, "user") # <<>> THEN << <<"B", "a", "s", "i", "c", " ", "Y", "W", "x", "p", "Y", "2", "U", "6", "c", "2", "V", "j", "c", "m", "V", "0">> >>
    ELSE <<>>

\* C25: the headers of the dedicated options (Accept-Encoding, Range, User-Agent,
\* Authorization, Referer) are set before the header list is applied: the option's
\* value stays the first value of its header and an explicit entry of the same name
\* is appended after it.
C25_OptionsBeforeHeaders ==
    Built =>
        /\ HeaderValues(req.header, KeyAcceptEncoding) =
                (IF GetBool(flags, "compressed") THEN << <<"g", "z", "i", "p", ",", " ", "d", "e", "f", "l", "a", "t", "e", ",", " ", "b", "r">> >> ELSE <<>>) \o Explicit(<<"i", "d", "e", "n", "t", "i", "t", "y">>)
        /\ HeaderValues(req.header, KeyRange) =
                (IF GetString(flags, "range") # <<>> THEN << <<"b", "y", "t", "e", "s", "=", "0", "-", "1", "0", "2", "3">> >> ELSE <<>>) \o Explicit(<<"b", "y", "t", "e", "s", "=", "5", "-">>)
        /\ HeaderValues(req.header, KeyUserAgent) =
                (IF GetString(flags, "user-agent") # <<>> THEN << <<"a", "g", "e", "n", "t", "/", "1">> >> ELSE <<>>) \o Explicit(<<"o", "t", "h", "e", "r">>)
        /\ HeaderValues(req.header, KeyAuthorization) = OptionAuthorization \o Explicit(<<"T", "o", "k", "e", "n", " ", "t">>)
        /\ HeaderValues(req.header, KeyReferer) =
                (IF GetString(flags, "referer") # <<>> THEN << <<"h", "t", "t", "p", ":", "/", "/", "r", ".", "c", "o", "m">> >> ELSE <<>>) \o Explicit(<<"h", "t", "t", "p", ":", "/", "/", "s", ".", "c", "o", "m">>)

\* every dedicated option set and every one of their headers named in the list
C25_Witness ==
    /\ Built
    /\ GetBool(flags, "compressed") /\ GetString(flags, "range") # <<>>
    /\ GetString(flags, "user-agent") # <<>> /\ GetString(flags, "referer") # <<>>
    /\ GetString(flags, "user") # <<>> /\ GetString(flags, "oauth2-bearer") = <<>>
    /\ GetStringArray(flags, "header") = HeaderOverrides
    /\ HeaderValues(req.header, KeyUserAgent) = << <<"a", "g", "e", "n", "t", "/", "1">>, <<"o", "t", "h", "e", "r">> >>
    /\ HeaderValues(req.header, KeyAuthorization) = << <<"B", "a", "s", "i", "c", " ", "Y", "W", "x", "p", "Y", "2", "U", "6", "c", "2", "V", "j", "c", "m", "V", "0">>, <<"T", "o", "k", "e", "n", " ", "t">> >>

----------------------------------------------------------------------------
(* Further properties of BuildRequest, over the flag sets of SpecRequest   *)

\* C26: the missing method/URL check comes first: with the method unresolved the
\* error is ErrMissingRequiredFields even for a URL that does not parse, whatever
\* the body and header options hold; an error of the request's construction is only
\* returned with method and URL both resolved; with either error no request is
\* returned.
C26_MissingCheckedFirst ==
    reqDone =>
        /\ MethodUnresolved => (reqErr = ErrMissingRequiredFields)
        /\ (reqErr \notin {NoError, ErrMissingRequiredFields}) =>
                (~MethodUnresolved /\ ~URLUnresolved /\ reqErr = ErrMissingScheme)
        /\ (reqErr # NoError) => (req = NoRequest)

\* no method, the URL "://invalid", a body and a header list: missing fields
C26_Witness ==
    /\ reqDone /\ MethodUnresolved
    /\ flags["url"].typ = "none" /\ args = <<URLBad>>
    /\ flags["data"].typ # "none" /\ flags["header"].typ # "none"
    /\ reqErr = ErrMissingRequiredFields /\ req = NoRequest

\* a method and the URL "://invalid": the error of the request's construction
C26_WitnessURLError ==
    /\ reqDone /\ ~MethodUnresolved
    /\ flags["url"].typ = "none" /\ args = <<URLBad>>
    /\ reqErr = ErrMissingScheme /\ req = NoRequest

----------------------------------------------------------------------------
(* Properties of BuildRequest, over the flag sets of SpecBody              *)

\* the URL option has a query component: a '?' before any '#'
HasQueryComponent == OriginalURL.rawQuery # <<>> \/ OriginalURL.forceQuery

\* C22: when --get folds a non-empty body into the URL, the request's URL is the
\* original URL, the separator and the body, the separator being '?' if the URL has
\* no query component and '&' otherwise, also for a URL whose only '?' is inside
\* the fragment and for a URL ending with a bare '?'.
C22_SeparatorByQuery ==
    (Built /\ GetBool(flags, "get") /\ GetString(flags, "data") = BodyData) =>
        req.url = ParseURL(GetString(flags, "url")
                           \o (IF HasQueryComponent THEN <<"&">> ELSE <<"?">>)
                           \o BodyData).url

\* the key/value pairs a form body decodes to: split on '&', each piece split on
\* its first '='
DecodeForm(body) ==
    {<<SplitN2(Split(body, "&")[i], "=")[1],
       IF Len(SplitN2(Split(body, "&")[i], "=")) = 2
       THEN SplitN2(Split(body, "&")[i], "=")[2] ELSE <<>>>> :
        i \in 1..Len(Split(body, "&"))}

\* the form mapping is the resolved body and stays in the request's body
FormIsBody ==
    /\ GetString(flags, "data") = <<>> /\ ~GetBool(flags, "get")
    /\ Len(GetStringToString(flags, "form")) > 0

\* C23: the body built from a form mapping, sent as
\* application/x-www-form-urlencoded, decodes back to exactly the mapping's
\* key/value pairs, also when a key or a value contains '&', '=' or a space.
C23_FormRoundTrip ==
    (Built /\ FormIsBody) =>
        /\ ContentTypeValues = << <<"a", "p", "p", "l", "i", "c", "a", "t", "i", "o", "n", "/", "x", "-", "w", "w", "w", "-", "f", "o", "r", "m", "-", "u", "r", "l", "e", "n", "c", "o", "d", "e", "d">> >>
        /\ DecodeForm(req.body) =
                {GetStringToString(flags, "form")[i] :
                    i \in 1..Len(GetStringToString(flags, "form"))}

----------------------------------------------------------------------------
(* Properties of concurrent builder calls, over SpecShared                 *)

\* what call c returns when it runs alone on the current options
Alone(c) ==
    IF c.kind = "request" THEN BuildRequest(flags, args, c.ord) ELSE BuildClient(flags)

====
